---------------------------- MODULE Spec2Model ----------------------------
(***************************************************************************)
(* Deployment registry, provider-bundle cache and wallet-connector         *)
(* bootstrap of the invoice board UI                                       *)
(* (bboard-ui/src/contexts/BrowserDeployedBoardManager.ts), with the       *)
(* board's subscription to a deployment, its handlers and what it renders  *)
(* (components/InvoiceBoard.tsx), and the InvoiceAPI adapter               *)
(* (api/src/index.ts): its derived state stream, its three operations,     *)
(* its transaction history, and deploy / join.                             *)
(*                                                                         *)
(* JavaScript is single-threaded: every action below is one run-to-        *)
(* completion turn (a call from the UI, a timer callback, or the           *)
(* continuation of an await).                                              *)
(***************************************************************************)
EXTENDS Integers, Sequences, FiniteSets, TLC

VARIABLES
    connector,            \* window.midnight?.mnLace: Absent or its apiVersion
    invoiceDeployments,   \* #invoiceDeploymentsSubject.value: the Deployments, by identity = index
    emissions,            \* number of next() calls on #invoiceDeploymentsSubject
    initializedProviders, \* #initializedProviders: 0 (undefined) or the index of the cached promise
    promises,             \* every promise initializeProviders() has returned, with its bootstrap
    subscriptions,        \* the subscribers of single Deployments (InvoiceBoard), each with
                          \* what it has received; subscribers that cannot be told apart are one
    resolveCalls,         \* number of resolve() calls made
    lastResolve,          \* argument and result of the last resolve() call
    \* One InvoiceAPI adapter (api/src/index.ts) and what it talks to:
    contractStates,       \* the contract states the public data provider has seen, by block
    privateStateStore,    \* what privateStateProvider holds under invoicePrivateStateKey
    privateStateLookup,   \* the promise of the constructor's privateStateProvider.get()
    operations,           \* every issueInvoice/payInvoice/resetInvoice call made on the adapter
    microtasks,           \* continuations ready to resume, in the order they became ready
    transactionHistory,   \* InvoiceAPI.transactionHistory
    stateSubscriber,      \* one subscriber of state$: combineLatest's slots and what it received
    attempts,             \* every InvoiceAPI.deploy / InvoiceAPI.join call made on the shared store
    board                 \* the React state of the InvoiceBoard that uses the adapter

registryVars == <<connector, invoiceDeployments, emissions, initializedProviders,
                  promises, subscriptions, resolveCalls, lastResolve>>

apiVars == <<contractStates, privateStateStore, privateStateLookup, operations,
             microtasks, transactionHistory, stateSubscriber, attempts, board>>

vars == <<registryVars, apiVars>>

---------------------------------------------------------------------------
(* Bounds of the model *)

MaxResolveCalls == 2    \* resolve() calls explored
MaxSubscribers == 1     \* subscriptions to Deployments explored
MaxSubscriptions == 2   \* subscriptions of the discovery pipeline per bootstrap
MaxOperations == 2      \* issueInvoice/payInvoice/resetInvoice calls made at any time
MaxAwaitedCalls == 3    \* calls made by a caller that awaits each before the next
MaxForeignCalls == 1    \* contract calls of another participant
MaxAttempts == 2        \* InvoiceAPI.deploy / InvoiceAPI.join calls explored
KeyLength == 2          \* bytes of a secret key in the model

(* Program constants, in units of the polling interval (100 ms) *)

PollIntervalMs == 100
DiscoveryTimeoutMs == 1000
ResponseTimeoutMs == 5000

DiscoveryTimeoutTicks == DiscoveryTimeoutMs \div PollIntervalMs
ResponseTimeoutTicks == ResponseTimeoutMs \div PollIntervalMs

---------------------------------------------------------------------------
(* Values *)

Absent == <<>>
ApiVersions == {<<1, 2, 0>>, <<2, 0, 0>>}

\* semver.satisfies(apiVersion, '1.x'): major version 1 (no prerelease tags modelled)
COMPATIBLE_CONNECTOR_API_VERSION == 1
SemverSatisfies(version, range) == version[1] = range

\* contract addresses: an address already on the network, and those minted by deploys
KnownAddress == <<"known", 1>>
MintedAddress(k) == <<"minted", k>>
Undefined == <<"undefined", 0>>      \* resolve() called without an argument
EmptyString == <<"", 0>>             \* resolve('')
NoAddress == <<"none", 0>>

\* JavaScript truthiness of a resolve() argument
Truthy(contractAddress) == contractAddress \notin {Undefined, EmptyString}

\* values a collaborator may throw or reject with
Thrown == { [type |-> "Error", msg |-> "external failure"],
            [type |-> "string", msg |-> "rejected"],
            [type |-> "undefined", msg |-> "undefined"] }
NoError == [type |-> "none", msg |-> ""]
IsTruthyValue(v) == v.type # "undefined"

ErrIncompatible == [type |-> "Error", msg |-> "Incompatible version of Midnight Lace wallet found."]
ErrNotFound == [type |-> "Error", msg |-> "Could not find Midnight Lace wallet. Extension installed?"]
ErrUnresponsive == [type |-> "Error", msg |-> "Midnight Lace wallet has failed to respond. Extension enabled?"]
ErrNotAuthorized == [type |-> "Error", msg |-> "Application is not authorized"]

\* (variant: the caught value stored as it is)
NormalizeErrorUnwrapped(error) == error

\* error instanceof Error ? error : new Error(String(error))
NormalizeError(error) ==
    IF error.type = "Error" THEN error ELSE [type |-> "Error", msg |-> error.msg]

InProgress == [status |-> "in-progress", address |-> NoAddress, error |-> NoError]
Deployed(address) == [status |-> "deployed", address |-> address, error |-> NoError]
Failed(error) == [status |-> "failed", address |-> NoAddress, error |-> NormalizeError(error)]


---------------------------------------------------------------------------
(* The registry: BrowserDeployedInvoiceManager *)

\* (variant: find() testing for the wrong status)
FindInProgress(deployments, contractAddress) ==
    LET matches == { i \in DOMAIN deployments :
                        /\ deployments[i].value.status = "in-progress"
                        /\ deployments[i].value.address = contractAddress }
    IN IF matches = {} THEN 0 ELSE CHOOSE i \in matches : \A j \in matches : i <= j

\* (variant: find() matching the argument of the resolve() call that created the
\* Deployment, which merges equal requests)
FindRequested(deployments, contractAddress) ==
    LET matches == { i \in DOMAIN deployments :
                        deployments[i].contractAddress = contractAddress }
    IN IF matches = {} THEN 0 ELSE CHOOSE i \in matches : \A j \in matches : i <= j

\* (variant: find() also returning a Deployment that failed for the address)
FindSettled(deployments, contractAddress) ==
    LET matches == { i \in DOMAIN deployments :
                        \/ /\ deployments[i].value.status = "deployed"
                           /\ deployments[i].value.address = contractAddress
                        \/ /\ deployments[i].value.status = "failed"
                           /\ deployments[i].contractAddress = contractAddress }
    IN IF matches = {} THEN 0 ELSE CHOOSE i \in matches : \A j \in matches : i <= j

\* deployments.find(d => d.value.status === 'deployed' &&
\*                       d.value.api.deployedContractAddress === contractAddress)
\* the index of the first match, 0 when there is none
FindDeployed(deployments, contractAddress) ==
    LET matches == { i \in DOMAIN deployments :
                        /\ deployments[i].value.status = "deployed"
                        /\ deployments[i].value.address = contractAddress }
    IN IF matches = {} THEN 0 ELSE CHOOSE i \in matches : \A j \in matches : i <= j

\* (variant: getProviders() without the cache)
AlwaysInitialize(cached) == TRUE

\* this.#initializedProviders ?? (this.#initializedProviders = initializeProviders(...)):
\* whether the right-hand side of ?? is evaluated
MustInitialize(cached) == cached = 0

\* the state of a promise returned by initializeProviders(): connectToWallet() has
\* subscribed the discovery pipeline, interval(100) and both timeout timers are running
\* (now: 100 ms ticks since the subscription, kept while a timeout timer is armed;
\* isEnabledCalledAt: the value of now at which isEnabled() was called, kept while
\* isEnabled() is pending)
NewBootstrap ==
    [phase |-> "polling", now |-> 0, isEnabledCalledAt |-> 0, subscriptions |-> 1,
     isEnabledCalls |-> 0, enableCalls |-> 0, serviceUriConfigCalls |-> 0,
     error |-> NoError, cause |-> "none"]

PromiseState(p) ==
    IF p.phase \in {"resolved", "rejected"} THEN p.phase ELSE "pending"

\* the arguments resolve() is called with
ResolveArguments ==
    {Undefined, EmptyString, KnownAddress}
        \cup { invoiceDeployments[i].value.address :
                 i \in { j \in DOMAIN invoiceDeployments :
                           invoiceDeployments[j].value.status = "deployed" } }

\* (variant: a task that goes on at once when the promise it awaits has been rejected)
ContinueIfSettled(deployment, promise) ==
    IF promise.phase = "rejected"
    THEN [deployment EXCEPT !.value = [status |-> "failed", address |-> NoAddress,
                                       error |-> promise.error],
                            !.pc = "done", !.thrown = promise.error]
    ELSE deployment

\* `await this.getProviders()` in deployDeployment / joinDeployment: the task is
\* suspended, whatever the state of the promise, and resolve() goes on
AwaitProviders(deployment, promise) == deployment

\* (variant: the new Deployment put in front of the collection)
Prepended(deployments, deployment) == <<deployment>> \o deployments

\* [...deployments, deployment]: the array resolve() emits
Extended(deployments, deployment) == Append(deployments, deployment)

\* resolve(contractAddress), with the synchronous part of joinDeployment /
\* deployDeployment it starts: up to `await this.getProviders()`
Resolve(contractAddress) ==
    /\ resolveCalls < MaxResolveCalls
    /\ resolveCalls' = resolveCalls + 1
    /\ LET found == FindDeployed(invoiceDeployments, contractAddress) IN
       IF found # 0
       THEN /\ lastResolve' = [contractAddress |-> contractAddress,
                               returned |-> found, created |-> FALSE]
            /\ UNCHANGED <<invoiceDeployments, emissions, initializedProviders, promises>>
       ELSE LET init == MustInitialize(initializedProviders)
                awaited == IF init THEN Len(promises) + 1 ELSE initializedProviders
                deployment ==
                    [kind |-> IF Truthy(contractAddress) THEN "join" ELSE "deploy",
                     contractAddress |-> contractAddress,
                     value |-> InProgress,
                     pc |-> "awaitProviders",
                     providers |-> awaited,
                     thrown |-> NoError]
            IN /\ promises' = IF init THEN Append(promises, NewBootstrap) ELSE promises
               /\ initializedProviders' = awaited
               /\ invoiceDeployments' =
                     Extended(invoiceDeployments,
                              AwaitProviders(deployment, promises'[awaited]))
               /\ emissions' = emissions + 1
               /\ lastResolve' = [contractAddress |-> contractAddress,
                                  returned |-> Len(invoiceDeployments) + 1,
                                  created |-> TRUE]
    /\ UNCHANGED <<apiVars, connector, subscriptions>>

\* BehaviorSubject.next(value) on Deployment i: every subscriber receives it
Deliver(i, value) ==
    { IF s.deployment = i THEN [s EXCEPT !.received = Append(@, value)] ELSE s :
        s \in subscriptions }

\* (variant: a catch block that only logs)
SettleLogOnly(d, ok, address, error) ==
    IF ok
    THEN [d EXCEPT !.value = Deployed(address), !.pc = "done"]
    ELSE [d EXCEPT !.pc = "done", !.thrown = error]

\* (variant: the task is left waiting for deploy/join after it has published)
SettleAndWait(d, ok, address, error) ==
    IF ok
    THEN [d EXCEPT !.value = Deployed(address)]
    ELSE [d EXCEPT !.value = Failed(error), !.thrown = error]

\* the end of deployDeployment / joinDeployment: deployment.next({status: 'deployed',
\* api}) when the awaits of the try block succeeded, else the catch block's
\* deployment.next({status: 'failed', error}); the async function then returns
Settle(d, ok, address, error) ==
    IF ok
    THEN [d EXCEPT !.value = Deployed(address), !.pc = "done"]
    ELSE [d EXCEPT !.value = Failed(error), !.pc = "done", !.thrown = error]

\* continuation of `await this.getProviders()` in deployDeployment / joinDeployment
ProvidersSettled(i) ==
    /\ i \in DOMAIN invoiceDeployments
    /\ invoiceDeployments[i].pc = "awaitProviders"
    /\ LET d == invoiceDeployments[i]
           p == promises[d.providers]
       IN /\ PromiseState(p) # "pending"
          /\ IF PromiseState(p) = "resolved"
             THEN \* InvoiceAPI.deploy / InvoiceAPI.join is called and awaited
                  /\ invoiceDeployments' =
                        [invoiceDeployments EXCEPT ![i] = [d EXCEPT !.pc = "awaitApi"]]
                  /\ UNCHANGED subscriptions
             ELSE LET after == Settle(d, FALSE, NoAddress, p.error) IN
                  /\ invoiceDeployments' = [invoiceDeployments EXCEPT ![i] = after]
                  /\ subscriptions' = Deliver(i, after.value)
    /\ UNCHANGED <<apiVars, connector, emissions, initializedProviders, promises,
                   resolveCalls, lastResolve>>

\* InvoiceAPI.deploy / InvoiceAPI.join resolves: deployment.next({status: 'deployed', api})
\* a join yields the contract at the address asked for, a deploy a newly minted address
ApiResolved(i) ==
    /\ i \in DOMAIN invoiceDeployments
    /\ invoiceDeployments[i].pc = "awaitApi"
    /\ LET d == invoiceDeployments[i]
           address == IF d.kind = "join" THEN d.contractAddress ELSE MintedAddress(i)
           after == Settle(d, TRUE, address, NoError)
       IN /\ invoiceDeployments' = [invoiceDeployments EXCEPT ![i] = after]
          /\ subscriptions' = Deliver(i, after.value)
    /\ UNCHANGED <<apiVars, connector, emissions, initializedProviders, promises,
                   resolveCalls, lastResolve>>

\* InvoiceAPI.deploy / InvoiceAPI.join rejects with `error`: the catch block
ApiRejected(i, error) ==
    /\ i \in DOMAIN invoiceDeployments
    /\ invoiceDeployments[i].pc = "awaitApi"
    /\ LET d == invoiceDeployments[i]
           after == Settle(d, FALSE, NoAddress, error)
       IN /\ invoiceDeployments' = [invoiceDeployments EXCEPT ![i] = after]
          /\ subscriptions' = Deliver(i, after.value)
    /\ UNCHANGED <<apiVars, connector, emissions, initializedProviders, promises,
                   resolveCalls, lastResolve>>

---------------------------------------------------------------------------
(* A board subscribing to one Deployment: InvoiceBoard's useEffect *)

\* (variant: a plain Subject, which replays nothing)
NoInitialDelivery(d) == <<>>

\* BehaviorSubject.subscribe(): what a new subscriber is handed at once
InitialDelivery(d) == <<d.value>>

Subscribe(i) ==
    /\ i \in DOMAIN invoiceDeployments
    /\ Cardinality(subscriptions) < MaxSubscribers
    /\ subscriptions' = subscriptions \cup
            { [deployment |-> i,
               statusAtSubscribe |-> invoiceDeployments[i].value.status,
               received |-> InitialDelivery(invoiceDeployments[i])] }
    /\ UNCHANGED <<apiVars, connector, invoiceDeployments, emissions, initializedProviders,
                   promises, resolveCalls, lastResolve>>

---------------------------------------------------------------------------
(* The board component: InvoiceBoard.tsx *)

\* errorMessage: undefined, or a message
NoErrorMessage == [defined |-> FALSE, message |-> ""]
ErrorMessage(message) == [defined |-> TRUE, message |-> message]

\* the state of a board mounted with a Deployment to watch: useState(...) of
\* invoiceDeployment, deployedInvoiceAPI, errorMessage, lastTxHash, and
\* isWorking = !!invoiceDeployment$. `awaiting` is not a state of the source: it
\* is the call a handler of the board is suspended on, 0 when none.
MountedBoard ==
    [invoiceDeployment |-> [status |-> "undefined", address |-> NoAddress, error |-> NoError],
     deployedInvoiceAPI |-> NoAddress,
     errorMessage |-> NoErrorMessage,
     isWorking |-> TRUE,
     lastTxHash |-> <<"none", 0>>,
     awaiting |-> 0]

\* the callback of invoiceDeployment$.subscribe
OnDeployment(b, deployment) ==
    CASE deployment.status = "deployed" ->
             [b EXCEPT !.invoiceDeployment = deployment,
                       !.deployedInvoiceAPI = deployment.address,
                       !.isWorking = FALSE]
      [] deployment.status = "failed" ->
             [b EXCEPT !.invoiceDeployment = deployment,
                       !.errorMessage = ErrorMessage(deployment.error.msg),
                       !.isWorking = FALSE]
      [] OTHER -> [b EXCEPT !.invoiceDeployment = deployment]

\* the board after the deliveries of its Deployment, in order
RECURSIVE BoardAfter(_)
BoardAfter(received) ==
    IF received = <<>> THEN MountedBoard
    ELSE OnDeployment(BoardAfter(SubSeq(received, 1, Len(received) - 1)),
                      received[Len(received)])

\* isWorking || !invoiceState, where invoiceState is the last snapshot state$ has
\* delivered, undefined when there is none
Loading(b, snapshots) == b.isWorking \/ snapshots = <<>>

\* what the board renders for a Deployment: the backdrop and skeleton, or the card
\* with the Alert of a truthy errorMessage
Rendered(b, snapshots) ==
    IF Loading(b, snapshots)
    THEN [view |-> "loading", alert |-> NoErrorMessage]
    ELSE [view |-> "card",
          alert |-> IF b.errorMessage.defined /\ b.errorMessage.message # ""
                       THEN b.errorMessage ELSE NoErrorMessage]

\* the snapshots a board watching a Deployment of the registry has received: it
\* subscribes to state$ only once deployedInvoiceAPI is set
NoSnapshots == <<>>

---------------------------------------------------------------------------
(* The wallet bootstrap: initializeProviders / connectToWallet *)

\* the extension injects window.midnight.mnLace, at any time
Inject(version) ==
    /\ connector = Absent
    /\ connector' = version
    /\ UNCHANGED <<apiVars, invoiceDeployments, emissions, initializedProviders, promises,
                   subscriptions, resolveCalls, lastResolve>>

\* catchError((error, apis) => error ? throwError(() => new Error('Application is not
\* authorized')) : apis), which every error raised upstream of it reaches: a truthy
\* error is replaced, a falsy one re-subscribes the pipeline from interval(100) on
\* (subscriptions and calls are counted up to MaxSubscriptions)
CatchError(b, error, cause) ==
    IF IsTruthyValue(error)
    THEN [b EXCEPT !.phase = "rejected", !.now = 0, !.isEnabledCalledAt = 0,
                   !.error = ErrNotAuthorized, !.cause = cause]
    ELSE [b EXCEPT !.phase = "polling", !.now = 0, !.isEnabledCalledAt = 0,
                   !.subscriptions = IF @ < MaxSubscriptions THEN @ + 1 ELSE @]

\* an error raised downstream of catchError rejects firstValueFrom, and with it
\* initializeProviders(), with that error
Reject(b, error, cause) ==
    [b EXCEPT !.phase = "rejected", !.error = error, !.cause = cause]

\* a falsy rejection re-subscribes: explored up to MaxSubscriptions subscriptions
MayThrow(b, error) == IsTruthyValue(error) \/ b.subscriptions < MaxSubscriptions

\* one tick of interval(100): map, filter, the version check, take(1), and on a
\* compatible connector the call of isEnabled()
Poll(p) ==
    /\ p \in DOMAIN promises
    /\ promises[p].phase = "polling"
    /\ promises[p].now < DiscoveryTimeoutTicks
    /\ LET b == [promises[p] EXCEPT !.now = @ + 1] IN
       promises' = [promises EXCEPT ![p] =
            IF connector = Absent
            THEN b
            ELSE IF SemverSatisfies(connector, COMPATIBLE_CONNECTOR_API_VERSION)
                 THEN [b EXCEPT !.phase = "isEnabled", !.isEnabledCalledAt = b.now,
                                !.isEnabledCalls =
                                    IF @ < MaxSubscriptions THEN @ + 1 ELSE @]
                 ELSE CatchError(b, ErrIncompatible, "version")]
    /\ UNCHANGED <<apiVars, connector, invoiceDeployments, emissions, initializedProviders,
                   subscriptions, resolveCalls, lastResolve>>

\* timeout({first: 1_000}): no connector passed take(1) within 1 s of the subscription;
\* the timer is due together with the tenth tick, and either may run first
DiscoveryTimeout(p) ==
    /\ p \in DOMAIN promises
    /\ promises[p].phase = "polling"
    /\ promises[p].now >= DiscoveryTimeoutTicks - 1
    /\ promises' = [promises EXCEPT ![p] =
            CatchError(promises[p], ErrNotFound, "not-found")]
    /\ UNCHANGED <<apiVars, connector, invoiceDeployments, emissions, initializedProviders,
                   subscriptions, resolveCalls, lastResolve>>

\* time passing while isEnabled() is pending, until the 5 s timer is due: nothing
\* else in the pipeline is scheduled in between (interval(100) ended with take(1))
Tick(p) ==
    /\ p \in DOMAIN promises
    /\ promises[p].phase = "isEnabled"
    /\ promises[p].now < ResponseTimeoutTicks
    /\ promises' = [promises EXCEPT ![p].now = ResponseTimeoutTicks]
    /\ UNCHANGED <<apiVars, connector, invoiceDeployments, emissions, initializedProviders,
                   subscriptions, resolveCalls, lastResolve>>

\* timeout({first: 5_000}): isEnabled() has not answered 5 s after the subscription
ResponseTimeout(p) ==
    /\ p \in DOMAIN promises
    /\ promises[p].phase = "isEnabled"
    /\ promises[p].now = ResponseTimeoutTicks
    /\ promises' = [promises EXCEPT ![p] =
            CatchError(promises[p], ErrUnresponsive, "unresponsive")]
    /\ UNCHANGED <<apiVars, connector, invoiceDeployments, emissions, initializedProviders,
                   subscriptions, resolveCalls, lastResolve>>

\* isEnabled() answers (true or false alike): enable() is called
IsEnabledResolved(p) ==
    /\ p \in DOMAIN promises
    /\ promises[p].phase = "isEnabled"
    /\ promises' = [promises EXCEPT ![p] =
            [promises[p] EXCEPT !.phase = "enable", !.now = 0, !.isEnabledCalledAt = 0,
                                !.enableCalls =
                                    IF @ < MaxSubscriptions THEN @ + 1 ELSE @]]
    /\ UNCHANGED <<apiVars, connector, invoiceDeployments, emissions, initializedProviders,
                   subscriptions, resolveCalls, lastResolve>>

IsEnabledRejected(p, error) ==
    /\ p \in DOMAIN promises
    /\ promises[p].phase = "isEnabled"
    /\ MayThrow(promises[p], error)
    /\ promises' = [promises EXCEPT ![p] =
            CatchError(promises[p], error, "isEnabled-rejected")]
    /\ UNCHANGED <<apiVars, connector, invoiceDeployments, emissions, initializedProviders,
                   subscriptions, resolveCalls, lastResolve>>

\* enable() resolves with the wallet session: serviceUriConfig() is called
EnableResolved(p) ==
    /\ p \in DOMAIN promises
    /\ promises[p].phase = "enable"
    /\ promises' = [promises EXCEPT ![p] =
            [promises[p] EXCEPT !.phase = "serviceUriConfig",
                                !.serviceUriConfigCalls = @ + 1]]
    /\ UNCHANGED <<apiVars, connector, invoiceDeployments, emissions, initializedProviders,
                   subscriptions, resolveCalls, lastResolve>>

EnableRejected(p, error) ==
    /\ p \in DOMAIN promises
    /\ promises[p].phase = "enable"
    /\ MayThrow(promises[p], error)
    /\ promises' = [promises EXCEPT ![p] =
            CatchError(promises[p], error, "enable-rejected")]
    /\ UNCHANGED <<apiVars, connector, invoiceDeployments, emissions, initializedProviders,
                   subscriptions, resolveCalls, lastResolve>>

\* serviceUriConfig() resolves: connectToWallet() resolves, wallet.state() is called
ServiceUriConfigResolved(p) ==
    /\ p \in DOMAIN promises
    /\ promises[p].phase = "serviceUriConfig"
    /\ promises' = [promises EXCEPT ![p].phase = "walletState"]
    /\ UNCHANGED <<apiVars, connector, invoiceDeployments, emissions, initializedProviders,
                   subscriptions, resolveCalls, lastResolve>>

ServiceUriConfigRejected(p, error) ==
    /\ p \in DOMAIN promises
    /\ promises[p].phase = "serviceUriConfig"
    /\ promises' = [promises EXCEPT ![p] =
            Reject(promises[p], error, "serviceUriConfig-rejected")]
    /\ UNCHANGED <<apiVars, connector, invoiceDeployments, emissions, initializedProviders,
                   subscriptions, resolveCalls, lastResolve>>

\* wallet.state() resolves: the provider bundle is built and the promise fulfilled
WalletStateResolved(p) ==
    /\ p \in DOMAIN promises
    /\ promises[p].phase = "walletState"
    /\ promises' = [promises EXCEPT ![p].phase = "resolved"]
    /\ UNCHANGED <<apiVars, connector, invoiceDeployments, emissions, initializedProviders,
                   subscriptions, resolveCalls, lastResolve>>

WalletStateRejected(p, error) ==
    /\ p \in DOMAIN promises
    /\ promises[p].phase = "walletState"
    /\ promises' = [promises EXCEPT ![p] =
            Reject(promises[p], error, "walletState-rejected")]
    /\ UNCHANGED <<apiVars, connector, invoiceDeployments, emissions, initializedProviders,
                   subscriptions, resolveCalls, lastResolve>>

---------------------------------------------------------------------------
(* The InvoiceAPI adapter (api/src/index.ts): values and pure functions    *)

\* JavaScript values as JSON.parse produces them. A string is a sequence of
\* characters (each a one-element TLA+ string; a run of characters that need no
\* escaping is written as one); an object is the sequence of its members in
\* insertion order, each a pair of its name (a string's characters) and its value.
JSUndefined == [type |-> "undefined"]
Str(chars) == [type |-> "string", value |-> chars]
Num(n) == [type |-> "number", value |-> n]
Obj(members) == [type |-> "object", value |-> members]

Quote == "\""
Backslash == "\\"

\* InvoiceData (common-types.ts): four string fields
InvoiceData(title, description, issuedAt, currency) ==
    Obj(<< << <<"title">>, Str(title) >>, << <<"description">>, Str(description) >>,
           << <<"issuedAt">>, Str(issuedAt) >>, << <<"currency">>, Str(currency) >> >>)

\* (variant: JSON.stringify that writes strings without escaping them)
EscapeNothing(chars) == chars

\* JSON.stringify: a quote or a backslash inside a string is written after a backslash
RECURSIVE Escape(_)
Escape(chars) ==
    IF chars = <<>> THEN <<>>
    ELSE (IF Head(chars) \in {Quote, Backslash}
             THEN <<Backslash, Head(chars)>>
             ELSE <<Head(chars)>>) \o Escape(Tail(chars))

QuoteString(chars) == <<Quote>> \o Escape(chars) \o <<Quote>>

\* JSON.stringify(value): the JSON text, a sequence of characters
RECURSIVE JSONStringify(_)
RECURSIVE StringifyMembers(_)
StringifyMembers(members) ==
    IF members = <<>> THEN <<>>
    ELSE QuoteString(Head(members)[1]) \o <<":">> \o JSONStringify(Head(members)[2])
         \o (IF Tail(members) = <<>> THEN <<>> ELSE <<",">> \o StringifyMembers(Tail(members)))

JSONStringify(value) ==
    CASE value.type = "string" -> QuoteString(value.value)
      [] value.type = "number" -> <<value.value>>
      [] value.type = "object" -> <<"{">> \o StringifyMembers(value.value) \o <<"}">>

\* JSON.parse, by recursive descent. Each parser returns [ok, value, rest]:
\* whether a value was read, the value, and the text after it.
ParseFailed == [ok |-> FALSE, value |-> JSUndefined, rest |-> <<>>]
NumberLiterals == {"0", "42"}

\* the characters of a string up to its closing quote, unescaped
RECURSIVE ParseChars(_, _)
ParseChars(text, read) ==
    IF text = <<>> THEN ParseFailed
    ELSE IF Head(text) = Quote THEN [ok |-> TRUE, value |-> Str(read), rest |-> Tail(text)]
    ELSE IF Head(text) = Backslash
         THEN IF Len(text) < 2 \/ text[2] \notin {Quote, Backslash} THEN ParseFailed
              ELSE ParseChars(Tail(Tail(text)), Append(read, text[2]))
    ELSE ParseChars(Tail(text), Append(read, Head(text)))

\* an object's member of the same name is replaced, in place, by a later one
SetMember(members, key, value) ==
    IF \E k \in DOMAIN members : members[k][1] = key
    THEN [k \in DOMAIN members |->
             IF members[k][1] = key THEN <<key, value>> ELSE members[k]]
    ELSE Append(members, <<key, value>>)

RECURSIVE ParseValue(_)
RECURSIVE ParseMembers(_, _)
ParseMembers(text, members) ==
    IF text = <<>> \/ Head(text) # Quote THEN ParseFailed
    ELSE LET key == ParseChars(Tail(text), <<>>) IN
         IF ~key.ok \/ key.rest = <<>> \/ Head(key.rest) # ":"
         THEN ParseFailed
         ELSE LET member == ParseValue(Tail(key.rest)) IN
              IF ~member.ok \/ member.rest = <<>> THEN ParseFailed
              ELSE LET read == SetMember(members, key.value.value, member.value) IN
                   CASE Head(member.rest) = "}" ->
                            [ok |-> TRUE, value |-> Obj(read), rest |-> Tail(member.rest)]
                     [] Head(member.rest) = "," -> ParseMembers(Tail(member.rest), read)
                     [] OTHER -> ParseFailed

ParseValue(text) ==
    IF text = <<>> THEN ParseFailed
    ELSE CASE Head(text) = Quote -> ParseChars(Tail(text), <<>>)
           [] Head(text) \in NumberLiterals ->
                  [ok |-> TRUE, value |-> Num(Head(text)), rest |-> Tail(text)]
           [] Head(text) = "{" ->
                  IF Len(text) >= 2 /\ text[2] = "}"
                  THEN [ok |-> TRUE, value |-> Obj(<<>>), rest |-> Tail(Tail(text))]
                  ELSE ParseMembers(Tail(text), <<>>)
           [] OTHER -> ParseFailed

\* JSON.parse(text): [ok |-> FALSE] stands for the SyntaxError it throws
JSONParse(text) ==
    LET parsed == ParseValue(text) IN
    IF parsed.ok /\ parsed.rest = <<>> THEN [ok |-> TRUE, value |-> parsed.value]
    ELSE [ok |-> FALSE, value |-> JSUndefined]

\* Uint8Array values are sequences of bytes; secret keys and the sequence number
\* passed to buyerKey are KeyLength bytes long (32 in the source)
HexDigits == <<"0", "1", "2", "3", "4", "5", "6", "7", "8", "9", "a", "b", "c", "d", "e", "f">>

\* (variant: toHex that writes only the low digit of each byte)
RECURSIVE toHexLowDigits(_)
toHexLowDigits(bytes) ==
    IF bytes = <<>> THEN <<>>
    ELSE <<HexDigits[(Head(bytes) % 16) + 1]>> \o toHexLowDigits(Tail(bytes))

\* toHex(bytes): two hexadecimal digits per byte
RECURSIVE toHex(_)
toHex(bytes) ==
    IF bytes = <<>> THEN <<>>
    ELSE <<HexDigits[(Head(bytes) \div 16) + 1], HexDigits[(Head(bytes) % 16) + 1]>>
         \o toHex(Tail(bytes))

\* convert_bigint_to_Uint8Array(n, x): the n bytes of x, least significant first
RECURSIVE convert_bigint_to_Uint8Array(_, _)
convert_bigint_to_Uint8Array(n, x) ==
    IF n = 0 THEN <<>>
    ELSE <<x % 256>> \o convert_bigint_to_Uint8Array(n - 1, x \div 256)

\* pureCircuits.buyerKey(secretKey, sequence): the contract's hash of the secret key
\* and the sequence number; it stands here as the pair written out, which like the
\* hash gives different keys to different arguments.
buyerKey(secretKey, sequence) == secretKey \o sequence

\* utils.randomBytes(32): the secret keys of this user and of another participant
LocalSecretKey == [i \in 1..KeyLength |-> 17]
ForeignSecretKey == [i \in 1..KeyLength |-> 1]
Null == <<>>
createInvoicePrivateState(secretKey) == [secretKey |-> secretKey]

\* The contract (contract/src/invoice.compact) -------------------------------
EMPTY == "EMPTY"
ISSUED == "ISSUED"
PAID == "PAID"
None == [is_some |-> FALSE, value |-> <<>>]
Some(text) == [is_some |-> TRUE, value |-> text]

\* the ledger of a newly deployed contract
InitialLedger ==
    [state |-> EMPTY, sequence |-> 1, buyerPk |-> [i \in 1..(2 * KeyLength) |-> 0],
     amount |-> 0, invoiceJson |-> None]

\* circuit issueInvoice(invoiceAmount, invoice), run with the caller's secret key
IssueAllowed(ledgerState) == ledgerState.state \in {EMPTY, PAID}
IssueInvoiceCircuit(ledgerState, secretKey, invoiceAmount, invoice) ==
    [state |-> ISSUED,
     sequence |-> ledgerState.sequence + 1,
     buyerPk |-> buyerKey(secretKey,
                          convert_bigint_to_Uint8Array(KeyLength, ledgerState.sequence + 1)),
     amount |-> invoiceAmount,
     invoiceJson |-> Some(invoice)]

\* (variant: a payInvoice circuit without the assertion on the caller's key)
PayAllowedAnyKey(ledgerState, secretKey) == ledgerState.state = ISSUED

\* circuit payInvoice(): asserts that the caller's key is the buyer's
PayAllowed(ledgerState, secretKey) ==
    /\ ledgerState.state = ISSUED
    /\ ledgerState.buyerPk =
          buyerKey(secretKey, convert_bigint_to_Uint8Array(KeyLength, ledgerState.sequence))
PayInvoiceCircuit(ledgerState) == [ledgerState EXCEPT !.state = PAID]

\* circuit resetInvoice(): clears a paid invoice
ResetAllowed(ledgerState) == ledgerState.state = PAID
ResetInvoiceCircuit(ledgerState) ==
    [ledgerState EXCEPT !.state = EMPTY, !.amount = 0, !.invoiceJson = None]

---------------------------------------------------------------------------
(* The InvoiceAPI adapter: derived state *)

\* canPay: toHex(ledgerState.buyerPk) === toHex(hashedSecretKey)
CanPay(ledgerState, privateState) ==
    LET hashedSecretKey ==
            buyerKey(privateState.secretKey,
                     convert_bigint_to_Uint8Array(KeyLength, ledgerState.sequence))
    IN toHex(ledgerState.buyerPk) = toHex(hashedSecretKey)

\* invoiceData: undefined unless invoiceJson.value is truthy and JSON.parse returns
ParsedInvoiceData(invoiceJson) ==
    IF invoiceJson.value = <<>> THEN JSUndefined
    ELSE LET parsed == JSONParse(invoiceJson.value) IN
         IF parsed.ok THEN parsed.value ELSE JSUndefined

\* (variant: the snapshot is handed the adapter's array itself, which later pushes
\* change; written as an array whose one element stands for the reference)
TheArrayItself(history) ==
    <<[type |-> "this.transactionHistory", txHash |-> <<"none", 0>>, blockHeight |-> 0,
       amount |-> -1, invoiceData |-> JSUndefined]>>

\* [...this.transactionHistory]: a new array holding the entries of this moment
ArrayCopy(history) == history

\* (variant: the projector reads the newest ledger state instead of the emitted one)
DerivedStateOfNewest(block, privateState, history) ==
    LET ledgerState == contractStates[Len(contractStates)] IN
    [state |-> ledgerState.state,
     sequence |-> ledgerState.sequence,
     amount |-> ledgerState.amount,
     invoiceData |-> ParsedInvoiceData(ledgerState.invoiceJson),
     canPay |-> CanPay(ledgerState, privateState),
     transactionHistory |-> ArrayCopy(history),
     block |-> block]

\* The projector of combineLatest: the snapshot of one ledger state and the private
\* state. `block` is not a field of the source's snapshot: it records which
\* ledger emission the snapshot was computed from.
DerivedState(block, privateState, history) ==
    LET ledgerState == contractStates[block] IN
    [state |-> ledgerState.state,
     sequence |-> ledgerState.sequence,
     amount |-> ledgerState.amount,
     invoiceData |-> ParsedInvoiceData(ledgerState.invoiceJson),
     canPay |-> CanPay(ledgerState, privateState),
     transactionHistory |-> ArrayCopy(history),
     block |-> block]

\* reading privateState.secretKey of null throws
ErrNullPrivateState ==
    [type |-> "Error", msg |-> "TypeError: Cannot read properties of null (reading 'secretKey')"]

\* combineLatest calling its projector for subscriber s: the snapshot is delivered,
\* or what the projector throws is delivered as the stream's error
Project(s) ==
    IF s.privateState = Null
    THEN [s EXCEPT !.error = ErrNullPrivateState]
    ELSE [s EXCEPT !.received =
             Append(@, DerivedState(s.ledger, s.privateState, transactionHistory))]

\* `first` is not a field of the source: it records which ledger state was the
\* latest when the subscription was made, the first one the subscriber is sent.
NotSubscribed ==
    [subscribed |-> FALSE, first |-> 0, ledger |-> 0, next |-> 0, hasPrivateState |-> FALSE,
     privateState |-> Null, received |-> <<>>, error |-> NoError]

\* (variant: every subscription reads the store again)
ReadAgain(lookup, store) == store

\* from(promise): every subscriber is handed the value the one promise, made in
\* the constructor, resolved with
Replayed(lookup, store) == lookup.value

\* state$.subscribe(): combineLatest subscribes to the contract state observable
\* ({type: 'latest'}: the latest state, then every later one) and to
\* from(promise); a promise that has settled already is delivered at once.
SubscribeState ==
    /\ ~stateSubscriber.subscribed
    /\ stateSubscriber' =
          [stateSubscriber EXCEPT
              !.subscribed = TRUE,
              !.first = Len(contractStates),
              !.next = Len(contractStates),
              !.hasPrivateState = privateStateLookup.state = "resolved",
              !.privateState = IF privateStateLookup.state = "resolved"
                                  THEN Replayed(privateStateLookup, privateStateStore)
                                  ELSE Null,
              !.error = IF privateStateLookup.state = "rejected"
                           THEN privateStateLookup.error ELSE NoError]
    /\ UNCHANGED <<registryVars, board, attempts, contractStates, privateStateStore, privateStateLookup,
                   operations, microtasks, transactionHistory>>

\* subscription.unsubscribe(), the cleanup of InvoiceBoard's effect: the next
\* state$.subscribe() is a new subscriber
UnsubscribeState ==
    /\ stateSubscriber.subscribed
    /\ stateSubscriber' = NotSubscribed
    /\ UNCHANGED <<registryVars, board, attempts, contractStates, privateStateStore, privateStateLookup,
                   operations, microtasks, transactionHistory>>

Live(s) == s.subscribed /\ s.error = NoError

\* the contract state observable emits the next contract state to the subscriber
LedgerEmission ==
    /\ Live(stateSubscriber)
    /\ stateSubscriber.next <= Len(contractStates)
    /\ LET s == [stateSubscriber EXCEPT !.ledger = stateSubscriber.next, !.next = @ + 1] IN
       stateSubscriber' = IF s.hasPrivateState THEN Project(s) ELSE s
    /\ UNCHANGED <<registryVars, board, attempts, contractStates, privateStateStore, privateStateLookup,
                   operations, microtasks, transactionHistory>>

\* privateStateProvider.get(invoicePrivateStateKey) resolves with what is stored
PrivateStateResolved ==
    /\ privateStateLookup.state = "pending"
    /\ privateStateLookup' =
          [privateStateLookup EXCEPT !.state = "resolved", !.value = privateStateStore]
    /\ stateSubscriber' =
          IF ~Live(stateSubscriber) THEN stateSubscriber
          ELSE LET s == [stateSubscriber EXCEPT !.hasPrivateState = TRUE,
                                                !.privateState = privateStateStore] IN
               IF s.ledger > 0 THEN Project(s) ELSE s
    /\ UNCHANGED <<registryVars, board, attempts, contractStates, privateStateStore, operations,
                   microtasks, transactionHistory>>

\* privateStateProvider.get(invoicePrivateStateKey) rejects: from(promise) errors
PrivateStateRejected(error) ==
    /\ privateStateLookup.state = "pending"
    /\ privateStateLookup' =
          [privateStateLookup EXCEPT !.state = "rejected", !.error = error]
    /\ stateSubscriber' =
          IF ~Live(stateSubscriber) THEN stateSubscriber
          ELSE [stateSubscriber EXCEPT !.error = error]
    /\ UNCHANGED <<registryVars, board, attempts, contractStates, privateStateStore, operations,
                   microtasks, transactionHistory>>

---------------------------------------------------------------------------
(* The InvoiceAPI adapter: issueInvoice, payInvoice, resetInvoice *)

NoTxData == [txHash |-> <<"none", 0>>, blockHeight |-> 0]
NoAmount == -1      \* the `amount` of a call or entry that has none
TxHash(block) == <<"tx", block>>
InFlight == { k \in DOMAIN operations : operations[k].pc \in {"callTx", "public"} }

\* (variant: all three methods record the type of issueInvoice)
EntryTypeCopied(method) == "issue"

\* the `type` each method records in the history
EntryType(method) ==
    CASE method = "issueInvoice" -> "issue"
      [] method = "payInvoice"   -> "payment"
      [] method = "resetInvoice" -> "reset"

\* What the model keeps of a call that has thrown once the next call is made: that
\* it was made and threw. (Its promise has been handed to the caller; the adapter
\* holds nothing of it.)
Forgotten ==
    [method |-> "forgotten", amount |-> NoAmount, invoiceData |-> JSUndefined,
     pc |-> "thrown", callTxCalls |-> 1, txData |-> NoTxData, rejection |-> NoError,
     returned |-> NoTxData.txHash, thrown |-> NoError, inFlight |-> 0]

\* (variant: a method that checks the last snapshot it has seen and throws without
\* submitting when the contract would not accept the call)
InvokeValidated(method, amount, invoiceData) ==
    LET received == stateSubscriber.received
        last == received[Len(received)]
        refused ==
            /\ received # <<>>
            /\ CASE method = "issueInvoice" -> last.state = ISSUED
                 [] method = "payInvoice"   -> last.state # ISSUED \/ ~last.canPay
                 [] method = "resetInvoice" -> last.state # PAID
    IN
    /\ operations' = Append(
          [k \in DOMAIN operations |->
              IF operations[k].pc = "thrown" THEN Forgotten ELSE operations[k]],
          [method |-> method, amount |-> amount, invoiceData |-> invoiceData,
           pc |-> IF refused THEN "thrown" ELSE "callTx",
           callTxCalls |-> IF refused THEN 0 ELSE 1, txData |-> NoTxData,
           rejection |-> NoError, returned |-> NoTxData.txHash,
           thrown |-> IF refused THEN [type |-> "Error", msg |-> "invalid state"]
                                 ELSE NoError,
           inFlight |-> Cardinality(InFlight)])
    /\ UNCHANGED <<registryVars, board, attempts, contractStates, privateStateStore, privateStateLookup,
                   microtasks, transactionHistory, stateSubscriber>>

\* A method up to its first await: it logs, serializes the invoice (issueInvoice)
\* and submits the contract call. `inFlight` is not a field of the source: it
\* records how many earlier calls were still running.
Invoked(method, amount, invoiceData) ==
    Append([k \in DOMAIN operations |->
               IF operations[k].pc = "thrown" THEN Forgotten ELSE operations[k]],
           [method |-> method, amount |-> amount, invoiceData |-> invoiceData,
            pc |-> "callTx", callTxCalls |-> 1, txData |-> NoTxData,
            rejection |-> NoError, returned |-> NoTxData.txHash, thrown |-> NoError,
            inFlight |-> Cardinality(InFlight)])

Invoke(method, amount, invoiceData) ==
    /\ operations' = Invoked(method, amount, invoiceData)
    /\ UNCHANGED <<registryVars, board, attempts, contractStates, privateStateStore, privateStateLookup,
                   microtasks, transactionHistory, stateSubscriber>>

\* the three methods, called at any time
issueInvoice(amount, invoiceData) ==
    Len(operations) < MaxOperations /\ Invoke("issueInvoice", amount, invoiceData)

payInvoice ==
    Len(operations) < MaxOperations /\ Invoke("payInvoice", NoAmount, JSUndefined)

resetInvoice ==
    Len(operations) < MaxOperations /\ Invoke("resetInvoice", NoAmount, JSUndefined)

\* the three methods, called by a caller that awaits each call before the next
\* (as InvoiceBoard does: while a call runs it shows no form and no button)
AwaitedCall(method, amount, invoiceData) ==
    /\ InFlight = {}
    /\ Len(operations) < MaxAwaitedCalls
    /\ Invoke(method, amount, invoiceData)

\* whether the network accepts the call of operation o on the latest contract state
Accepted(o, ledgerState, secretKey) ==
    CASE o.method = "issueInvoice" -> IssueAllowed(ledgerState)
      [] o.method = "payInvoice"   -> PayAllowed(ledgerState, secretKey)
      [] o.method = "resetInvoice" -> ResetAllowed(ledgerState)

Applied(o, ledgerState, secretKey) ==
    CASE o.method = "issueInvoice" ->
             IssueInvoiceCircuit(ledgerState, secretKey, o.amount,
                                 JSONStringify(o.invoiceData))
      [] o.method = "payInvoice"   -> PayInvoiceCircuit(ledgerState)
      [] o.method = "resetInvoice" -> ResetInvoiceCircuit(ledgerState)

\* (variant: a continuation that becomes ready overtakes the waiting ones)
EnqueueFirst(queue, k) == <<k>> \o queue

\* a continuation that becomes ready runs after those already waiting
Enqueue(queue, k) == Append(queue, k)

\* callTx.<circuit>(...) resolves: the transaction is in a block and the contract
\* state has changed; the method logs txData.public and awaits it.
CallTxResolved(k) ==
    /\ k \in DOMAIN operations
    /\ operations[k].pc = "callTx"
    /\ privateStateStore # Null
    /\ LET ledgerState == contractStates[Len(contractStates)]
           secretKey == privateStateStore.secretKey
           block == Len(contractStates) + 1
       IN /\ Accepted(operations[k], ledgerState, secretKey)
          /\ contractStates' =
                Append(contractStates, Applied(operations[k], ledgerState, secretKey))
          /\ operations' =
                [operations EXCEPT ![k].pc = "public",
                                   ![k].txData = [txHash |-> TxHash(block),
                                                  blockHeight |-> block]]
    /\ microtasks' = Enqueue(microtasks, k)
    /\ UNCHANGED <<registryVars, board, attempts, privateStateStore, privateStateLookup,
                   transactionHistory, stateSubscriber>>

\* (variant: a catch block that throws a new Error made from what it caught)
RethrownWrapped(error) == [type |-> "Error", msg |-> error.msg]

\* catch (error) { log; throw error }
Rethrown(error) == error

\* (variant: a catch block that records the failed call)
CaughtRecorded(history, o) ==
    Append(history, [type |-> EntryType(o.method), txHash |-> o.txData.txHash,
                     blockHeight |-> o.txData.blockHeight,
                     amount |-> o.amount, invoiceData |-> o.invoiceData])

\* the history after the catch block has run for operation o: as it was
Caught(history, o) == history

\* callTx.<circuit>(...) rejects (submission, proof or the network's check of the
\* circuit's precondition): the catch block logs and rethrows.
CallTxRejected(k, error) ==
    /\ k \in DOMAIN operations
    /\ operations[k].pc = "callTx"
    /\ operations' = [operations EXCEPT ![k].pc = "thrown",
                                        ![k].rejection = error,
                                        ![k].thrown = Rethrown(error)]
    /\ transactionHistory' = Caught(transactionHistory, operations[k])
    /\ UNCHANGED <<registryVars, board, attempts, contractStates, privateStateStore, privateStateLookup,
                   microtasks, stateSubscriber>>

\* the entry a method pushes once finalizedTx is there
HistoryEntry(o, finalizedTx) ==
    [type |-> EntryType(o.method), txHash |-> finalizedTx.txHash,
     blockHeight |-> finalizedTx.blockHeight,
     amount |-> o.amount, invoiceData |-> o.invoiceData]

\* `await txData.public` resumes: the entry is pushed and the method returns
\* finalizedTx.txHash
PublicResumed ==
    /\ microtasks # <<>>
    /\ LET k == Head(microtasks)
           finalizedTx == operations[k].txData
       IN /\ transactionHistory' =
                Append(transactionHistory, HistoryEntry(operations[k], finalizedTx))
          /\ operations' = [operations EXCEPT ![k].pc = "returned",
                                              ![k].returned = finalizedTx.txHash]
    /\ microtasks' = Tail(microtasks)
    /\ UNCHANGED <<registryVars, board, attempts, contractStates, privateStateStore, privateStateLookup,
                   stateSubscriber>>

\* Another participant, with its own secret key, issues an invoice whose text is
\* any string.
ForeignCalls ==
    Len(contractStates) - 1
        - Cardinality({ k \in DOMAIN operations : operations[k].pc \in {"public", "returned"} })

ForeignIssue(amount, invoice) ==
    /\ ForeignCalls < MaxForeignCalls
    /\ LET ledgerState == contractStates[Len(contractStates)] IN
       /\ IssueAllowed(ledgerState)
       /\ contractStates' =
             Append(contractStates,
                    IssueInvoiceCircuit(ledgerState, ForeignSecretKey, amount, invoice))
    /\ UNCHANGED <<registryVars, board, attempts, privateStateStore, privateStateLookup, operations,
                   microtasks, transactionHistory, stateSubscriber>>

---------------------------------------------------------------------------
(* InvoiceAPI.deploy / InvoiceAPI.join: the private state they hand over   *)

\* utils.randomBytes(32): the n-th value it returns; no two calls return the same
RandomBytes(n) == [i \in 1..KeyLength |-> 32 + n]

Generated == { a \in DOMAIN attempts : attempts[a].generated }

\* InvoiceAPI.deploy(providers) / InvoiceAPI.join(providers, contractAddress) up to
\* the first await: getPrivateState has called privateStateProvider.get
StartAttempt(kind) ==
    /\ Len(attempts) < MaxAttempts
    /\ attempts' = Append(attempts,
          [kind |-> kind, pc |-> "getPrivateState", generated |-> FALSE,
           initialPrivateState |-> Null, privateState |-> Null, error |-> NoError])
    /\ UNCHANGED <<registryVars, board, contractStates, privateStateStore, privateStateLookup,
                   operations, microtasks, transactionHistory, stateSubscriber>>

deploy == StartAttempt("deploy")
join == StartAttempt("join")

\* existingPrivateState ?? createInvoicePrivateState(utils.randomBytes(32))
getPrivateState(existingPrivateState) ==
    IF existingPrivateState # Null
    THEN [value |-> existingPrivateState, generated |-> FALSE]
    ELSE [value |-> createInvoicePrivateState(RandomBytes(Cardinality(Generated) + 1)),
          generated |-> TRUE]

\* privateStateProvider.get resolves with what is stored: getPrivateState returns and
\* deployContract / findDeployedContract is called with initialPrivateState
GetResolved(a) ==
    /\ a \in DOMAIN attempts
    /\ attempts[a].pc = "getPrivateState"
    /\ LET result == getPrivateState(privateStateStore) IN
       attempts' = [attempts EXCEPT ![a].pc = "contract",
                                    ![a].initialPrivateState = result.value,
                                    ![a].generated = result.generated]
    /\ UNCHANGED <<registryVars, board, contractStates, privateStateStore, privateStateLookup,
                   operations, microtasks, transactionHistory, stateSubscriber>>

\* deployContract / findDeployedContract resolves: it has stored initialPrivateState
\* under privateStateId; new InvoiceAPI(...) then calls privateStateProvider.get
ContractResolved(a) ==
    /\ a \in DOMAIN attempts
    /\ attempts[a].pc = "contract"
    /\ privateStateStore' = attempts[a].initialPrivateState
    /\ attempts' = [attempts EXCEPT ![a].pc = "constructed"]
    /\ UNCHANGED <<registryVars, board, contractStates, privateStateLookup,
                   operations, microtasks, transactionHistory, stateSubscriber>>

\* deployContract / findDeployedContract rejects: deploy / join rejects with it
ContractRejected(a, error) ==
    /\ a \in DOMAIN attempts
    /\ attempts[a].pc = "contract"
    /\ attempts' = [attempts EXCEPT ![a].pc = "rejected", ![a].error = error]
    /\ UNCHANGED <<registryVars, board, contractStates, privateStateStore, privateStateLookup,
                   operations, microtasks, transactionHistory, stateSubscriber>>

\* the get of the adapter's constructor resolves with what is stored: the private
\* state its snapshots are computed with
AdapterLookupResolved(a) ==
    /\ a \in DOMAIN attempts
    /\ attempts[a].pc = "constructed"
    /\ attempts' = [attempts EXCEPT ![a].pc = "ready", ![a].privateState = privateStateStore]
    /\ UNCHANGED <<registryVars, board, contractStates, privateStateStore, privateStateLookup,
                   operations, microtasks, transactionHistory, stateSubscriber>>

\* deploy and join attempts sharing one private-state store, which is empty or holds
\* the private state of an earlier session
AttemptInit ==
    /\ connector = Absent
    /\ invoiceDeployments = <<>>
    /\ emissions = 1
    /\ initializedProviders = 0
    /\ promises = <<>>
    /\ subscriptions = {}
    /\ resolveCalls = 0
    /\ lastResolve = [contractAddress |-> Undefined, returned |-> 0, created |-> FALSE]
    /\ contractStates = <<>>
    /\ privateStateStore \in {Null, createInvoicePrivateState(LocalSecretKey)}
    /\ privateStateLookup = [state |-> "pending", value |-> Null, error |-> NoError]
    /\ operations = <<>>
    /\ microtasks = <<>>
    /\ transactionHistory = <<>>
    /\ stateSubscriber = NotSubscribed
    /\ attempts = <<>>
    /\ board = MountedBoard

\* what deployContract / findDeployedContract may reject with
ContractErrors == { e \in Thrown : e.type = "Error" }

AttemptNext ==
    \/ deploy
    \/ join
    \/ \E a \in DOMAIN attempts : GetResolved(a)
    \/ \E a \in DOMAIN attempts : ContractResolved(a)
    \/ \E a \in DOMAIN attempts, e \in ContractErrors : ContractRejected(a, e)
    \/ \E a \in DOMAIN attempts : AdapterLookupResolved(a)

AttemptSpec == AttemptInit /\ [][AttemptNext]_vars

---------------------------------------------------------------------------
(* The adapter's specification *)

\* the invoices this user issues
IssueArguments ==
    { <<100, InvoiceData(<<"T">>, <<"D">>, <<"2025-01-01">>, <<"NIGHT">>)>>,
      <<0, InvoiceData(<<"say ", Quote, "hi", Quote, Backslash>>, <<>>,
                       <<"2025-01-01">>, <<"NIGHT">>)>> }

InvoiceDatas == { a[2] : a \in IssueArguments }

\* the invoice texts another participant may put on the ledger: the empty string,
\* a truncated text, and two JSON texts that are not invoices
Truncated == <<"{", Quote, "title", Quote, ":", Quote, "T">>
ForeignInvoices == { <<>>, Truncated, <<"{", "}">>, <<"42">> }
ForeignAmount == 7

ApiInit ==
    /\ connector = Absent
    /\ invoiceDeployments = <<>>
    /\ emissions = 1
    /\ initializedProviders = 0
    /\ promises = <<>>
    /\ subscriptions = {}
    /\ resolveCalls = 0
    /\ lastResolve = [contractAddress |-> Undefined, returned |-> 0, created |-> FALSE]
    /\ contractStates = <<InitialLedger>>
    /\ privateStateStore \in {Null, createInvoicePrivateState(LocalSecretKey)}
    /\ privateStateLookup = [state |-> "pending", value |-> Null, error |-> NoError]
    /\ operations = <<>>
    /\ microtasks = <<>>
    /\ transactionHistory = <<>>
    /\ stateSubscriber = NotSubscribed
    /\ attempts = <<>>
    /\ board = MountedBoard

\* what a contract call and the private state lookup may reject with
CallErrors == { e \in Thrown : e.type # "undefined" }
LookupErrors == { e \in Thrown : e.type = "Error" }

ApiNext ==
    \/ \E a \in IssueArguments : issueInvoice(a[1], a[2])
    \/ payInvoice
    \/ resetInvoice
    \/ \E k \in DOMAIN operations : CallTxResolved(k)
    \/ \E k \in DOMAIN operations, e \in CallErrors : CallTxRejected(k, e)
    \/ PublicResumed
    \/ \E invoice \in ForeignInvoices : ForeignIssue(ForeignAmount, invoice)
    \/ SubscribeState
    \/ LedgerEmission
    \/ PrivateStateResolved
    \/ \E e \in LookupErrors : PrivateStateRejected(e)

ApiSpec == ApiInit /\ [][ApiNext]_vars

\* The adapter under a caller that awaits each call before the next
AwaitedNext ==
    \/ \E a \in IssueArguments : AwaitedCall("issueInvoice", a[1], a[2])
    \/ AwaitedCall("payInvoice", NoAmount, JSUndefined)
    \/ AwaitedCall("resetInvoice", NoAmount, JSUndefined)
    \/ \E k \in DOMAIN operations : CallTxResolved(k)
    \/ \E k \in DOMAIN operations, e \in CallErrors : CallTxRejected(k, e)
    \/ PublicResumed
    \/ \E invoice \in ForeignInvoices : ForeignIssue(ForeignAmount, invoice)
    \/ SubscribeState
    \/ LedgerEmission
    \/ PrivateStateResolved
    \/ \E e \in LookupErrors : PrivateStateRejected(e)

AwaitedSpec == ApiInit /\ [][AwaitedNext]_vars

\* The adapter of one board while other deploy and join attempts use the same
\* private-state store, and the board subscribes to state$ again and again
LookupNext ==
    \/ \E a \in IssueArguments : AwaitedCall("issueInvoice", a[1], a[2])
    \/ \E k \in DOMAIN operations : CallTxResolved(k)
    \/ PublicResumed
    \/ SubscribeState
    \/ UnsubscribeState
    \/ LedgerEmission
    \/ PrivateStateResolved
    \/ \E e \in LookupErrors : PrivateStateRejected(e)
    \/ deploy
    \/ join
    \/ \E a \in DOMAIN attempts : GetResolved(a)
    \/ \E a \in DOMAIN attempts : ContractResolved(a)

LookupSpec == ApiInit /\ [][LookupNext]_vars

---------------------------------------------------------------------------
(* The board of a deployed contract: its handlers and what it offers *)

MaxForeignPayments == 1     \* payInvoice calls of another participant

\* JavaScript truthiness of a value JSON.parse returned, or of undefined
JSTruthy(value) ==
    CASE value.type = "undefined" -> FALSE
      [] value.type = "string" -> value.value # <<>>
      [] value.type = "number" -> value.value # "0"
      [] OTHER -> TRUE

\* the buttons of the card that start a contract call (the issue button opens the
\* form whose submit button calls onIssueInvoice); the loading view has none
Offered(b, snapshots) ==
    IF Loading(b, snapshots) THEN {}
    ELSE LET invoiceState == snapshots[Len(snapshots)] IN
         (IF invoiceState.state = EMPTY THEN {"issue"} ELSE {})
         \cup (IF /\ invoiceState.state = ISSUED
                  /\ JSTruthy(invoiceState.invoiceData)
                  /\ invoiceState.canPay
               THEN {"pay"} ELSE {})
         \cup (IF invoiceState.state = PAID /\ JSTruthy(invoiceState.invoiceData)
               THEN {"reset"} ELSE {})

\* validateForm(): a title of at least three characters and an amount above zero
ValidForm(title, amount) == title # <<>> /\ Len(title) >= 3 /\ amount > 0

\* what the user may have typed into the form: title (character by character)
\* and amount
FormInputs == { <<<<"T", "e", "a">>, 100>>, <<<<"T">>, 100>>, <<<<"T", "e", "a">>, 0>> }

\* onIssueInvoice, up to its await: validateForm, setIsWorking(true),
\* setErrorMessage(undefined), deployedInvoiceAPI.issueInvoice(BigInt(amount), invoiceData)
onIssueInvoice(title, amount) ==
    /\ "issue" \in Offered(board, stateSubscriber.received)
    /\ board.deployedInvoiceAPI # NoAddress
    /\ ValidForm(title, amount)
    /\ Len(operations) < MaxAwaitedCalls
    /\ operations' = Invoked("issueInvoice", amount,
                             InvoiceData(title, <<>>, <<"2025-01-01">>, <<"NIGHT">>))
    /\ board' = [board EXCEPT !.isWorking = TRUE, !.errorMessage = NoErrorMessage,
                              !.awaiting = Len(operations) + 1]
    /\ UNCHANGED <<registryVars, attempts, contractStates, privateStateStore,
                   privateStateLookup, microtasks, transactionHistory, stateSubscriber>>

\* onPayInvoice / onResetInvoice, up to the await: setIsWorking(true) and the call
onPayInvoice ==
    /\ "pay" \in Offered(board, stateSubscriber.received)
    /\ board.deployedInvoiceAPI # NoAddress
    /\ Len(operations) < MaxAwaitedCalls
    /\ operations' = Invoked("payInvoice", NoAmount, JSUndefined)
    /\ board' = [board EXCEPT !.isWorking = TRUE, !.awaiting = Len(operations) + 1]
    /\ UNCHANGED <<registryVars, attempts, contractStates, privateStateStore,
                   privateStateLookup, microtasks, transactionHistory, stateSubscriber>>

onResetInvoice ==
    /\ "reset" \in Offered(board, stateSubscriber.received)
    /\ board.deployedInvoiceAPI # NoAddress
    /\ Len(operations) < MaxAwaitedCalls
    /\ operations' = Invoked("resetInvoice", NoAmount, JSUndefined)
    /\ board' = [board EXCEPT !.isWorking = TRUE, !.awaiting = Len(operations) + 1]
    /\ UNCHANGED <<registryVars, attempts, contractStates, privateStateStore,
                   privateStateLookup, microtasks, transactionHistory, stateSubscriber>>

\* error instanceof Error ? error.message : String(error)
CaughtMessage(error) == error.msg

\* the handler resumes after its await: setLastTxHash(txHash) when the call
\* returned, the catch block's setErrorMessage(...) when it threw, and in both
\* cases the finally block's setIsWorking(false)
HandlerResumed ==
    /\ board.awaiting # 0
    /\ LET o == operations[board.awaiting] IN
       /\ o.pc \in {"returned", "thrown"}
       /\ board' =
             IF o.pc = "returned"
             THEN [board EXCEPT !.lastTxHash = o.returned, !.isWorking = FALSE,
                                !.awaiting = 0]
             ELSE [board EXCEPT !.errorMessage = ErrorMessage(CaughtMessage(o.thrown)),
                                !.isWorking = FALSE, !.awaiting = 0]
    /\ UNCHANGED <<registryVars, attempts, contractStates, privateStateStore,
                   privateStateLookup, operations, microtasks, transactionHistory,
                   stateSubscriber>>

\* the user closes the error Alert: setErrorMessage(undefined)
CloseAlert ==
    /\ Rendered(board, stateSubscriber.received).alert.defined
    /\ board' = [board EXCEPT !.errorMessage = NoErrorMessage]
    /\ UNCHANGED <<registryVars, attempts, contractStates, privateStateStore,
                   privateStateLookup, operations, microtasks, transactionHistory,
                   stateSubscriber>>

\* Another participant pays the invoice it has issued.
ForeignPay ==
    /\ ForeignCalls < MaxForeignCalls + MaxForeignPayments
    /\ LET ledgerState == contractStates[Len(contractStates)] IN
       /\ PayAllowed(ledgerState, ForeignSecretKey)
       /\ contractStates' = Append(contractStates, PayInvoiceCircuit(ledgerState))
    /\ UNCHANGED <<registryVars, board, attempts, privateStateStore, privateStateLookup,
                   operations, microtasks, transactionHistory, stateSubscriber>>

\* a board whose Deployment has been delivered as 'deployed': it has the adapter
\* and subscribes to its state$
DeployedBoard ==
    OnDeployment(OnDeployment(MountedBoard, InProgress), Deployed(KnownAddress))

BoardInit ==
    /\ connector = Absent
    /\ invoiceDeployments = <<>>
    /\ emissions = 1
    /\ initializedProviders = 0
    /\ promises = <<>>
    /\ subscriptions = {}
    /\ resolveCalls = 0
    /\ lastResolve = [contractAddress |-> Undefined, returned |-> 0, created |-> FALSE]
    /\ contractStates = <<InitialLedger>>
    /\ privateStateStore = createInvoicePrivateState(LocalSecretKey)
    /\ privateStateLookup = [state |-> "pending", value |-> Null, error |-> NoError]
    /\ operations = <<>>
    /\ microtasks = <<>>
    /\ transactionHistory = <<>>
    /\ stateSubscriber = NotSubscribed
    /\ attempts = <<>>
    /\ board = DeployedBoard

BoardNext ==
    \/ \E input \in FormInputs : onIssueInvoice(input[1], input[2])
    \/ onPayInvoice
    \/ onResetInvoice
    \/ HandlerResumed
    \/ CloseAlert
    \/ \E k \in DOMAIN operations : CallTxResolved(k)
    \/ \E k \in DOMAIN operations, e \in CallErrors : CallTxRejected(k, e)
    \/ PublicResumed
    \/ \E invoice \in ForeignInvoices : ForeignIssue(ForeignAmount, invoice)
    \/ ForeignPay
    \/ SubscribeState
    \/ LedgerEmission
    \/ PrivateStateResolved

BoardSpec == BoardInit /\ [][BoardNext]_vars

---------------------------------------------------------------------------
(* The specification *)

Init ==
    /\ connector = Absent
    /\ invoiceDeployments = <<>>
    /\ emissions = 1          \* the BehaviorSubject's initial []
    /\ initializedProviders = 0
    /\ promises = <<>>
    /\ subscriptions = {}
    /\ resolveCalls = 0
    /\ lastResolve = [contractAddress |-> Undefined, returned |-> 0, created |-> FALSE]
    \* no adapter yet
    /\ contractStates = <<>>
    /\ privateStateStore = Null
    /\ privateStateLookup = [state |-> "pending", value |-> Null, error |-> NoError]
    /\ operations = <<>>
    /\ microtasks = <<>>
    /\ transactionHistory = <<>>
    /\ stateSubscriber = NotSubscribed
    /\ attempts = <<>>
    /\ board = MountedBoard

Deployments == 1..MaxResolveCalls
Promises == 1..MaxResolveCalls

Next ==
    \/ \E a \in ResolveArguments : Resolve(a)
    \/ \E i \in Deployments : ProvidersSettled(i)
    \/ \E i \in Deployments : ApiResolved(i)
    \/ \E i \in Deployments, e \in Thrown : ApiRejected(i, e)
    \/ \E i \in Deployments : Subscribe(i)
    \/ \E v \in ApiVersions : Inject(v)
    \/ \E p \in Promises : Poll(p)
    \/ \E p \in Promises : DiscoveryTimeout(p)
    \/ \E p \in Promises : Tick(p)
    \/ \E p \in Promises : ResponseTimeout(p)
    \/ \E p \in Promises : IsEnabledResolved(p)
    \/ \E p \in Promises, e \in Thrown : IsEnabledRejected(p, e)
    \/ \E p \in Promises : EnableResolved(p)
    \/ \E p \in Promises, e \in Thrown : EnableRejected(p, e)
    \/ \E p \in Promises : ServiceUriConfigResolved(p)
    \/ \E p \in Promises, e \in Thrown : ServiceUriConfigRejected(p, e)
    \/ \E p \in Promises : WalletStateResolved(p)
    \/ \E p \in Promises, e \in Thrown : WalletStateRejected(p, e)

Spec == Init /\ [][Next]_vars

\* a falsy rejection of isEnabled() or enable() after MaxSubscriptions
\* subscriptions: catchError subscribes the pipeline once more
Falsy == [type |-> "undefined", msg |-> "undefined"]
RejectedAgain(p) ==
    /\ p \in DOMAIN promises
    /\ promises[p].phase \in {"isEnabled", "enable"}
    /\ ~MayThrow(promises[p], Falsy)
    /\ promises' = [promises EXCEPT ![p] =
            CatchError(promises[p], Falsy,
                       IF promises[p].phase = "enable" THEN "enable-rejected"
                                                       ELSE "isEnabled-rejected")]
    /\ UNCHANGED <<apiVars, connector, invoiceDeployments, emissions, initializedProviders,
                   subscriptions, resolveCalls, lastResolve>>

FairNext == Next \/ \E p \in Promises : RejectedAgain(p)

\* What runs when it is due: the timers of interval(100) and of both timeouts, and
\* the continuations of settled promises. What is assumed of the collaborators:
\* a call of enable(), serviceUriConfig(), wallet.state(), InvoiceAPI.deploy or
\* InvoiceAPI.join that was started settles, one way or the other. isEnabled() is
\* not assumed to settle: the 5 s timer bounds the wait for it.
Fairness ==
    /\ \A p \in Promises :
          /\ WF_vars(Poll(p))
          /\ WF_vars(DiscoveryTimeout(p))
          /\ WF_vars(Tick(p))
          /\ WF_vars(ResponseTimeout(p))
          /\ WF_vars(EnableResolved(p) \/ \E e \in Thrown : EnableRejected(p, e)
                                       \/ RejectedAgain(p))
          /\ WF_vars(ServiceUriConfigResolved(p)
                        \/ \E e \in Thrown : ServiceUriConfigRejected(p, e))
          /\ WF_vars(WalletStateResolved(p) \/ \E e \in Thrown : WalletStateRejected(p, e))
    /\ \A i \in Deployments :
          /\ WF_vars(ProvidersSettled(i))
          /\ WF_vars(ApiResolved(i) \/ \E e \in Thrown : ApiRejected(i, e))

FairSpec == Init /\ [][FairNext]_vars /\ Fairness

---------------------------------------------------------------------------
(* The registry provider component: DeployedInvoiceProvider *)

\* DeployedInvoiceProvider renders: `new BrowserDeployedInvoiceManager(logger)` becomes
\* the context value. The variables of the registry are those of the manager in
\* scope: the new one has an empty collection and no cached promise. The consumers
\* re-render with it (App subscribes to its collection, the boards of the earlier
\* manager unmount); the bootstraps started so far keep running.
Render ==
    /\ invoiceDeployments' = <<>>
    /\ emissions' = 1
    /\ initializedProviders' = 0
    /\ subscriptions' = {}
    /\ UNCHANGED <<apiVars, connector, promises, resolveCalls, lastResolve>>

\* the registry with its provider component re-rendering at any time
ProviderNext == Render \/ Next

ProviderSpec == Init /\ [][ProviderNext]_vars

---------------------------------------------------------------------------
(* Type invariant *)

Values ==
    {InProgress}
        \cup { Deployed(a) : a \in {KnownAddress} \cup { MintedAddress(k) : k \in Deployments } }
        \cup { [status |-> "failed", address |-> NoAddress, error |-> e] :
                 e \in Thrown \cup {ErrNotAuthorized}
                        \cup { [type |-> "Error", msg |-> t.msg] : t \in Thrown } }

TypeOK ==
    /\ connector \in {Absent} \cup ApiVersions
    /\ Len(invoiceDeployments) <= resolveCalls
    /\ resolveCalls \in 0..MaxResolveCalls
    /\ emissions = Len(invoiceDeployments) + 1
    /\ initializedProviders \in 0..Len(promises)
    /\ \A i \in DOMAIN invoiceDeployments :
          /\ invoiceDeployments[i].value \in Values
          /\ invoiceDeployments[i].kind \in {"deploy", "join"}
          /\ invoiceDeployments[i].pc \in {"awaitProviders", "awaitApi", "done"}
          /\ invoiceDeployments[i].providers \in DOMAIN promises
    /\ \A p \in DOMAIN promises :
          /\ promises[p].phase \in {"polling", "isEnabled", "enable", "serviceUriConfig",
                                    "walletState", "resolved", "rejected"}
          /\ promises[p].now \in 0..ResponseTimeoutTicks
          /\ promises[p].isEnabledCalledAt \in 0..DiscoveryTimeoutTicks
          /\ promises[p].subscriptions \in 1..MaxSubscriptions
    /\ \A s \in subscriptions :
          /\ s.deployment \in DOMAIN invoiceDeployments
          /\ \A k \in DOMAIN s.received : s.received[k] \in Values

---------------------------------------------------------------------------
(* Claims *)

DeployedAt(deployments, address) ==
    { i \in DOMAIN deployments : deployments[i].value = Deployed(address) }

\* C1: a resolve(addr) call made while a 'deployed' Deployment with contract address
\* addr exists returns that Deployment (the same one on every such call: the first
\* in the collection), starts no join/deploy attempt and no bootstrap, and leaves
\* the collection and its emissions unchanged.
C1_IdempotentJoin ==
    [][ ( /\ resolveCalls' = resolveCalls + 1
          /\ DeployedAt(invoiceDeployments, lastResolve'.contractAddress) # {} )
        => LET same == DeployedAt(invoiceDeployments, lastResolve'.contractAddress) IN
           /\ lastResolve'.returned \in same
           /\ \A j \in same : lastResolve'.returned <= j
           /\ ~lastResolve'.created
           /\ invoiceDeployments' = invoiceDeployments
           /\ emissions' = emissions
           /\ promises' = promises
           /\ initializedProviders' = initializedProviders ]_vars

\* C1 witness: the last resolve() call returned an existing deployed Deployment
C1_Witness ==
    /\ resolveCalls >= 2
    /\ ~lastResolve.created
    /\ lastResolve.returned \in DeployedAt(invoiceDeployments, lastResolve.contractAddress)

\* C2: at most one Deployment of the collection holds any given contract address
\* (stated for the Deployments that reached 'deployed', the narrowest reading).
C2_OneDeploymentPerAddress ==
    \A i, j \in DOMAIN invoiceDeployments :
        ( /\ invoiceDeployments[i].value.status = "deployed"
          /\ invoiceDeployments[j].value.status = "deployed"
          /\ invoiceDeployments[i].value.address = invoiceDeployments[j].value.address )
        => i = j

C4_RetryAfterFailedConstruction ==
    [][ ( /\ Len(invoiceDeployments') = Len(invoiceDeployments) + 1
          /\ initializedProviders # 0
          /\ PromiseState(promises[initializedProviders]) = "rejected" )
        => Len(promises') = Len(promises) + 1 ]_vars

\* C5: a Deployment whose attempt awaits a rejected provider-bundle promise never
\* goes on to deploy/join and never becomes 'deployed'; while it is still
\* 'in-progress' its continuation is ready to run, and once it has run the
\* Deployment is 'failed' with the construction error (as an Error).
C5_BundleFailureReachesWaiters ==
    \A i \in DOMAIN invoiceDeployments :
        LET d == invoiceDeployments[i]
            p == promises[d.providers]
        IN PromiseState(p) = "rejected" =>
              /\ d.pc # "awaitApi"
              /\ d.value.status # "deployed"
              /\ d.pc = "awaitProviders" => ENABLED ProvidersSettled(i)
              /\ d.pc = "done" =>
                    /\ d.value.status = "failed"
                    /\ d.value.error.type = "Error"
                    /\ d.value.error.msg = p.error.msg
                    /\ d.thrown = p.error

\* C5 witness: the construction awaited by two attempts failed, and both Deployments
\* are 'failed' with its error
C5_Witness ==
    /\ Len(invoiceDeployments) >= 2
    /\ PromiseState(promises[1]) = "rejected"
    /\ \A i \in DOMAIN invoiceDeployments :
          /\ invoiceDeployments[i].value.status = "failed"
          /\ invoiceDeployments[i].thrown = promises[1].error

\* C6: every Deployment is created 'in-progress'; its status changes at most once,
\* from 'in-progress' to 'deployed' or to 'failed'; a 'deployed' or 'failed'
\* Deployment never changes again, and no Deployment leaves the collection.
C6_DeploymentLifecycle ==
    [][ /\ \A i \in DOMAIN invoiceDeployments :
              /\ i \in DOMAIN invoiceDeployments'
              /\ invoiceDeployments[i].value.status # "in-progress"
                    => invoiceDeployments'[i].value = invoiceDeployments[i].value
              /\ invoiceDeployments'[i].value.status \in {"in-progress", "deployed", "failed"}
        /\ \A i \in DOMAIN invoiceDeployments' \ DOMAIN invoiceDeployments :
              invoiceDeployments'[i].value = InProgress ]_vars

\* C6 witness: one Deployment has become 'deployed' and another 'failed'
C6_Witness ==
    /\ \E i \in DOMAIN invoiceDeployments : invoiceDeployments[i].value.status = "deployed"
    /\ \E i \in DOMAIN invoiceDeployments : invoiceDeployments[i].value.status = "failed"

TerminalCount(received) ==
    Cardinality({ k \in DOMAIN received : received[k].status # "in-progress" })

\* C7 as stated: every subscriber of a Deployment, whenever it subscribes, is
\* delivered 'in-progress' before any terminal state, and at most one terminal state.
C7_InProgressBeforeTerminal ==
    \A s \in subscriptions :
        LET received == s.received IN
        /\ TerminalCount(received) <= 1
        /\ \A k \in DOMAIN received :
              received[k].status # "in-progress"
                 => \E j \in 1..(k - 1) : received[j].status = "in-progress"

\* C7 as amended: a subscriber is first delivered the Deployment's value at the time
\* of subscribing ('in-progress' only if it subscribed before the terminal state);
\* after that it is delivered the terminal state when it is published; it is
\* delivered at most one terminal state, never 'in-progress' after it, and what it
\* was delivered last is the Deployment's current value.
C7_CurrentValueThenTerminal ==
    \A s \in subscriptions :
        LET received == s.received
            d == invoiceDeployments[s.deployment]
        IN /\ Len(received) >= 1
           /\ received[1].status = s.statusAtSubscribe
           /\ received[Len(received)] = d.value
           /\ TerminalCount(received) <= 1
           /\ \A k \in DOMAIN received :
                 received[k].status = "in-progress" => k = 1
           /\ s.statusAtSubscribe = "in-progress" /\ d.pc = "done"
                 => Len(received) = 2

\* C7 witness: a subscriber was delivered 'in-progress' and then a terminal state
C7_Witness ==
    \E s \in subscriptions :
        /\ Len(s.received) = 2
        /\ s.received[1].status = "in-progress"
        /\ s.received[2].status \in {"deployed", "failed"}

\* C8: whatever is thrown during the bootstrap, deploy or join (an Error or any other
\* value) ends as the Deployment's 'failed' value holding an Error: the thrown
\* Error itself, or a new Error whose message is String(thrown value); every
\* resolve() call returns a Deployment and subscribers are delivered values only.
C8_FailuresAreValues ==
    /\ \A i \in DOMAIN invoiceDeployments :
          LET d == invoiceDeployments[i] IN
          /\ d.thrown # NoError => (d.pc = "done" /\ d.value.status = "failed")
          /\ d.value.status = "failed" =>
                /\ d.thrown # NoError
                /\ d.value.error.type = "Error"
                /\ d.thrown.type = "Error" => d.value.error = d.thrown
                /\ d.thrown.type # "Error" =>
                      d.value.error = [type |-> "Error", msg |-> d.thrown.msg]
    /\ resolveCalls > 0 => lastResolve.returned \in DOMAIN invoiceDeployments
    /\ \A s \in subscriptions : \A k \in DOMAIN s.received :
          s.received[k].status \in {"in-progress", "deployed", "failed"}

\* C8 witness: a join or deploy rejected with a value that is not an Error, and a
\* subscriber was delivered the resulting 'failed' value
C8_Witness ==
    \E s \in subscriptions :
        LET d == invoiceDeployments[s.deployment] IN
        /\ d.thrown.type = "string"
        /\ d.value.status = "failed"
        /\ s.received[Len(s.received)] = d.value

\* C9: a bootstrap that ends because the connector sighted has an apiVersion outside
\* '1.x' rejects with the version-incompatible error, and has called none of
\* isEnabled(), enable(), serviceUriConfig().
C9_VersionMismatchError ==
    \A p \in DOMAIN promises :
        (promises[p].phase = "rejected" /\ promises[p].cause = "version")
        => /\ promises[p].error = ErrIncompatible
           /\ promises[p].isEnabledCalls = 0
           /\ promises[p].enableCalls = 0
           /\ promises[p].serviceUriConfigCalls = 0

\* C10: a bootstrap that ends because no connector was present at any poll before
\* the 1 s discovery timeout rejects with the not-found error, and has called none
\* of isEnabled(), enable(), serviceUriConfig().
C10_ConnectorNotFoundError ==
    \A p \in DOMAIN promises :
        (promises[p].phase = "rejected" /\ promises[p].cause = "not-found")
        => /\ promises[p].error = ErrNotFound
           /\ promises[p].isEnabledCalls = 0
           /\ promises[p].enableCalls = 0
           /\ promises[p].serviceUriConfigCalls = 0


\* The error the specification assigns to each discovery failure kind
DiscoveryError(cause) ==
    CASE cause = "not-found"       -> ErrNotFound
      [] cause = "unresponsive"    -> ErrUnresponsive
      [] cause = "version"         -> ErrIncompatible
      [] cause = "enable-rejected" -> ErrNotAuthorized

\* C11: the errors delivered for the four discovery failures (connector never
\* appears, isEnabled() never responds, incompatible version, enable() rejected)
\* are pairwise distinct: each failure kind delivers its own error, and neither
\* 'not found' nor 'unresponsive' is delivered as 'not authorized'.
C11_DistinctDiscoveryErrors ==
    /\ Cardinality({ErrNotFound, ErrUnresponsive, ErrIncompatible, ErrNotAuthorized}) = 4
    /\ \A p \in DOMAIN promises :
          (/\ promises[p].phase = "rejected"
           /\ promises[p].cause \in {"not-found", "unresponsive", "version", "enable-rejected"})
          => promises[p].error = DiscoveryError(promises[p].cause)

\* C12: a bootstrap whose enable() rejected fails with 'not authorized' without
\* calling serviceUriConfig(); and a bootstrap fails with 'not authorized' only
\* when enable() was called and rejected.
C12_NotAuthorizedOnlyAfterEnable ==
    \A p \in DOMAIN promises :
        /\ (promises[p].phase = "rejected" /\ promises[p].cause = "enable-rejected")
              => /\ promises[p].error = ErrNotAuthorized
                 /\ promises[p].serviceUriConfigCalls = 0
        /\ (promises[p].phase = "rejected" /\ promises[p].error = ErrNotAuthorized)
              => /\ promises[p].cause = "enable-rejected"
                 /\ promises[p].enableCalls > 0


---------------------------------------------------------------------------
(* Claims about the InvoiceAPI adapter *)

\* the ledger state a snapshot was computed from
LedgerOf(snapshot) == contractStates[snapshot.block]

\* C13: every snapshot delivered on state$ has canPay = (buyerKey(secretKey,
\* sequence) = buyerPk) for the sequence and buyerPk of the ledger state it was
\* computed from and the secret key of the adapter's private state; so two
\* snapshots of ledger states with the same sequence and buyerPk agree on canPay.
C13_CanPayInvariant ==
    LET received == stateSubscriber.received IN
    /\ \A i \in DOMAIN received :
          /\ received[i].sequence = LedgerOf(received[i]).sequence
          /\ received[i].canPay =
                (buyerKey(privateStateLookup.value.secretKey,
                          convert_bigint_to_Uint8Array(KeyLength, received[i].sequence))
                    = LedgerOf(received[i]).buyerPk)
    /\ \A i, j \in DOMAIN received :
          (/\ LedgerOf(received[i]).sequence = LedgerOf(received[j]).sequence
           /\ LedgerOf(received[i]).buyerPk = LedgerOf(received[j]).buyerPk)
          => received[i].canPay = received[j].canPay

\* C13 witness: the subscriber has received a snapshot of an invoice this user can
\* pay and a snapshot of an invoice issued with another secret key
C13_Witness ==
    \E i, j \in DOMAIN stateSubscriber.received :
        /\ stateSubscriber.received[i].state = ISSUED
        /\ stateSubscriber.received[i].canPay
        /\ stateSubscriber.received[j].state = ISSUED
        /\ ~stateSubscriber.received[j].canPay

\* the expected invoice structure: an object of the four string fields
IsInvoiceData(value) ==
    /\ value.type = "object"
    /\ { value.value[k][1] : k \in DOMAIN value.value }
          = {<<"title">>, <<"description">>, <<"issuedAt">>, <<"currency">>}
    /\ \A k \in DOMAIN value.value : value.value[k][2].type = "string"

\* C14: a snapshot's invoiceData is undefined whenever the invoiceJson of its
\* ledger state is empty, is not valid JSON, or is valid JSON that is not the
\* expected invoice structure.
C14_InvoiceDataAbsence ==
    \A i \in DOMAIN stateSubscriber.received :
        LET text == LedgerOf(stateSubscriber.received[i]).invoiceJson.value IN
        (\/ text = <<>>
         \/ ~JSONParse(text).ok
         \/ ~IsInvoiceData(JSONParse(text).value))
        => stateSubscriber.received[i].invoiceData = JSUndefined

\* parse(serialize(d)) = d for every invoice this user issues
RoundTrips == \A d \in InvoiceDatas : JSONParse(JSONStringify(d)) = [ok |-> TRUE, value |-> d]

\* C15: after issueInvoice(amount, d) has succeeded, the snapshot computed from the
\* ledger state its transaction produced has invoiceData equal to d and amount
\* equal to the issued amount; parse(serialize(d)) = d.
C15_InvoiceRoundTrip ==
    /\ RoundTrips
    /\ \A k \in DOMAIN operations : \A i \in DOMAIN stateSubscriber.received :
          (/\ operations[k].method = "issueInvoice"
           /\ operations[k].txData # NoTxData
           /\ stateSubscriber.received[i].block = operations[k].txData.blockHeight)
          => /\ stateSubscriber.received[i].invoiceData = operations[k].invoiceData
             /\ stateSubscriber.received[i].amount = operations[k].amount

\* C15 witness: an issueInvoice of an invoice with a quote and a backslash in its
\* title has returned and the subscriber has the snapshot of its ledger state
C15_Witness ==
    \E k \in DOMAIN operations : \E i \in DOMAIN stateSubscriber.received :
        /\ operations[k].method = "issueInvoice"
        /\ operations[k].pc = "returned"
        /\ Quote \in { operations[k].invoiceData.value[1][2].value[c] :
                          c \in DOMAIN operations[k].invoiceData.value[1][2].value }
        /\ stateSubscriber.received[i].block = operations[k].txData.blockHeight
        /\ stateSubscriber.received[i].invoiceData = operations[k].invoiceData


\* the calls that have returned, in the order they were made
Returned == SelectSeq(operations, LAMBDA o : o.pc = "returned")

\* C16: under a caller that awaits each call before the next, the history holds one
\* entry per call that has returned, in the order of the calls, each with the type
\* of its method and the txHash and blockHeight of its own finalization, and each
\* call has returned its own finalized txHash; so issueInvoice, payInvoice,
\* resetInvoice in sequence give the types issue, payment, reset.
C16_SequentialHistory ==
    /\ Len(transactionHistory) = Len(Returned)
    /\ \A i \in DOMAIN Returned :
          /\ transactionHistory[i].type =
                (CASE Returned[i].method = "issueInvoice" -> "issue"
                   [] Returned[i].method = "payInvoice"   -> "payment"
                   [] Returned[i].method = "resetInvoice" -> "reset")
          /\ transactionHistory[i].txHash = Returned[i].txData.txHash
          /\ transactionHistory[i].blockHeight = Returned[i].txData.blockHeight
          /\ Returned[i].returned = Returned[i].txData.txHash
          /\ Returned[i].txData # NoTxData
    /\ \A i, j \in DOMAIN Returned :
          i # j => Returned[i].txData.txHash # Returned[j].txData.txHash

\* C16 witness: issueInvoice, payInvoice and resetInvoice, each awaited, have
\* returned and the history has the types issue, payment, reset
C16_Witness ==
    /\ Len(operations) = 3
    /\ \A k \in DOMAIN operations : operations[k].pc = "returned" /\ operations[k].inFlight = 0
    /\ [k \in DOMAIN operations |-> operations[k].method]
          = <<"issueInvoice", "payInvoice", "resetInvoice">>
    /\ [i \in DOMAIN transactionHistory |-> transactionHistory[i].type]
          = <<"issue", "payment", "reset">>

\* C17: the history's entries are in the order in which their calls were finalized
\* (their block heights increase), whatever the order of the calls, and every
\* entry is the entry of a call whose finalization has been delivered.
C17_HistoryInFinalizationOrder ==
    /\ \A i, j \in DOMAIN transactionHistory :
          i < j => transactionHistory[i].blockHeight < transactionHistory[j].blockHeight
    /\ \A i \in DOMAIN transactionHistory :
          \E k \in DOMAIN operations :
              /\ operations[k].pc = "returned"
              /\ operations[k].txData.txHash = transactionHistory[i].txHash
              /\ operations[k].txData.blockHeight = transactionHistory[i].blockHeight
              /\ operations[k].txData.blockHeight <= Len(contractStates)
    /\ \A k \in DOMAIN operations :
          operations[k].pc \in {"callTx", "public", "thrown"} =>
              \A i \in DOMAIN transactionHistory :
                  transactionHistory[i].txHash # operations[k].txData.txHash

\* C17 witness: of two calls running at once, the one made later was finalized
\* first and is recorded first
C17_Witness ==
    /\ Len(transactionHistory) = 2
    /\ \E k1, k2 \in DOMAIN operations :
          /\ k1 < k2
          /\ operations[k2].inFlight > 0
          /\ operations[k2].txData.blockHeight < operations[k1].txData.blockHeight
          /\ transactionHistory[1].txHash = operations[k2].txData.txHash
          /\ transactionHistory[2].txHash = operations[k1].txData.txHash

\* C18: a step in which a call fails leaves the history, the contract states and
\* what the state$ subscriber has (snapshots, error) as they were.
C18_FailureRecordsNothing ==
    [][(\E k \in DOMAIN operations :
            operations[k].pc = "callTx" /\ operations'[k].pc = "thrown")
       => /\ transactionHistory' = transactionHistory
          /\ contractStates' = contractStates
          /\ stateSubscriber' = stateSubscriber]_vars

\* C18 witness: a call has failed while the subscriber was receiving snapshots
C18_Witness ==
    /\ \E k \in DOMAIN operations :
          operations[k].pc = "thrown" /\ operations[k].rejection # NoError
    /\ stateSubscriber.received # <<>>
    /\ transactionHistory # <<>>

\* C19: a call whose contract call rejected with e has thrown that same e, and has
\* made its contract call once.
C19_RethrownUnchanged ==
    \A k \in DOMAIN operations :
        operations[k].rejection # NoError
        => /\ operations[k].pc = "thrown"
           /\ operations[k].thrown = operations[k].rejection
           /\ operations[k].callTxCalls = 1

\* C19 witness: a contract call rejected with a value that is not an Error
C19_Witness ==
    \E k \in DOMAIN operations :
        /\ operations[k].pc = "thrown"
        /\ operations[k].rejection.type = "string"

\* C20: state$ never delivers an error to its subscriber.
C20_StreamNeverErrors == stateSubscriber.error = NoError

\* the last snapshot the state$ subscriber has received forbids `method`
Discouraged(method) ==
    LET received == stateSubscriber.received
        last == received[Len(received)]
    IN /\ received # <<>>
       /\ CASE method = "issueInvoice" -> last.state = ISSUED
            [] method = "payInvoice"   -> last.state # ISSUED \/ ~last.canPay
            [] method = "resetInvoice" -> last.state # PAID
            [] OTHER -> FALSE

\* C21: a step in which issueInvoice, payInvoice or resetInvoice is called submits
\* the contract call (once, and the call waits for its result), whatever state and
\* canPay the last snapshot shows; and a step in which the contract call is
\* rejected makes the method throw what the call rejected with, as for any failure.
C21_NoLocalValidation ==
    [][ /\ Len(operations') > Len(operations)
           => LET o == operations'[Len(operations')] IN
              /\ o.pc = "callTx"
              /\ o.callTxCalls = 1
              /\ o.thrown = NoError
        /\ \A k \in DOMAIN operations :
              (operations[k].pc = "callTx" /\ operations'[k].pc = "thrown")
              => /\ operations'[k].rejection # NoError
                 /\ operations'[k].thrown = operations'[k].rejection ]_vars

\* C21 witness: payInvoice was called after a snapshot showed no invoice to pay
\* (state EMPTY, canPay false), its contract call was submitted and the network,
\* whose ledger has never left EMPTY, rejected it
C21_Witness ==
    /\ Len(contractStates) = 1
    /\ Discouraged("payInvoice")
    /\ \E k \in DOMAIN operations :
          /\ operations[k].method = "payInvoice"
          /\ operations[k].inFlight = 0
          /\ operations[k].pc = "thrown"
          /\ operations[k].callTxCalls = 1
          /\ operations[k].rejection # NoError

\* the latest contract state
Ledger == contractStates[Len(contractStates)]

\* the method of the call of this adapter that a step has put into a block, or
\* "foreign" when the block is another participant's
MethodOfNewBlock ==
    LET mine == { k \in DOMAIN operations :
                    operations[k].pc = "callTx" /\ operations'[k].pc = "public" }
    IN IF mine = {} THEN "foreign" ELSE operations[CHOOSE k \in mine : TRUE].method

\* the caller's key as the payInvoice circuit recomputes it
RecomputedKey(ledgerState) ==
    buyerKey(privateStateStore.secretKey,
             convert_bigint_to_Uint8Array(KeyLength, ledgerState.sequence))

---------------------------------------------------------------------------
(* Claims about the registry, continued *)

\* C23: every resolve() call without an address appends a new Deployment, in
\* 'in-progress', to the collection and starts a deploy attempt for it (which
\* awaits the provider bundle), whatever Deployments exist already; so n such
\* calls add n Deployments.
C23_DeployRequestsNeverMerged ==
    [][ (resolveCalls' = resolveCalls + 1 /\ lastResolve'.contractAddress = Undefined)
        => /\ lastResolve'.created
           /\ lastResolve'.returned = Len(invoiceDeployments) + 1
           /\ Len(invoiceDeployments') = Len(invoiceDeployments) + 1
           /\ SubSeq(invoiceDeployments', 1, Len(invoiceDeployments)) = invoiceDeployments
           /\ LET d == invoiceDeployments'[Len(invoiceDeployments')] IN
              /\ d.kind = "deploy"
              /\ d.value = InProgress
              /\ d.pc = "awaitProviders" ]_vars

\* C23 witness: two resolve() calls without an address, the second made when the
\* first one's contract was deployed, have left two Deployments
C23_Witness ==
    /\ resolveCalls = 2
    /\ Len(invoiceDeployments) = 2
    /\ \A i \in 1..2 : invoiceDeployments[i].contractAddress = Undefined
    /\ invoiceDeployments[1].value = Deployed(MintedAddress(1))
    /\ invoiceDeployments[2].value = InProgress

---------------------------------------------------------------------------
(* Claims about InvoiceAPI.deploy / InvoiceAPI.join *)

\* C24: over the deploy and join attempts that share one private-state store, a
\* random secret key is generated at most once; once a private state is stored,
\* every attempt's initialPrivateState is the stored one, and every adapter's
\* private state is the stored one.
C24_SecretKeyGeneratedOnce ==
    /\ Cardinality(Generated) <= 1
    /\ \A a \in DOMAIN attempts :
          /\ (attempts[a].initialPrivateState # Null /\ privateStateStore # Null)
                => attempts[a].initialPrivateState = privateStateStore
          /\ attempts[a].pc = "ready" => attempts[a].privateState = privateStateStore

\* C25: at most one wallet bootstrap is ever started, and so at most one provider
\* bundle is constructed, however many resolve() calls are made and however often
\* the provider component renders.
C25_ProcessWideBundle ==
    /\ Len(promises) <= 1
    /\ Cardinality({ p \in DOMAIN promises : promises[p].phase = "resolved" }) <= 1

\* the Deployments for an address: those resolve() created for it and those whose
\* contract is deployed at it
DeploymentsFor(address) ==
    { i \in DOMAIN invoiceDeployments :
        \/ invoiceDeployments[i].contractAddress = address
        \/ invoiceDeployments[i].value.address = address }

C27_IndependentTimeouts ==
    [][ \A p \in DOMAIN promises :
          promises[p].phase = "isEnabled"
          => /\ promises'[p].cause = "unresponsive"
                => promises[p].now - promises[p].isEnabledCalledAt >= ResponseTimeoutTicks
             /\ promises'[p].phase = "enable"
                => promises'[p].enableCalls = promises[p].enableCalls + 1 ]_vars

\* what tells the Deployments of the collection apart, in order
Entries(deployments) ==
    [i \in DOMAIN deployments |->
        <<deployments[i].kind, deployments[i].contractAddress, deployments[i].providers>>]

\* C28: a step in which the collection stream emits adds exactly one Deployment, in
\* 'in-progress', at the end of the collection and leaves the earlier ones as and
\* where they were; a step in which it does not emit leaves the collection's entries
\* and their order as they were; and every resolve() call that creates a Deployment
\* is such an emitting step, the Deployment it returns being the last entry.
C28_AppendOnlyCollection ==
    [][ /\ emissions' = emissions
           => Entries(invoiceDeployments') = Entries(invoiceDeployments)
        /\ emissions' # emissions
           => /\ emissions' = emissions + 1
              /\ resolveCalls' = resolveCalls + 1
              /\ Len(invoiceDeployments') = Len(invoiceDeployments) + 1
              /\ SubSeq(invoiceDeployments', 1, Len(invoiceDeployments)) = invoiceDeployments
              /\ invoiceDeployments'[Len(invoiceDeployments')].value = InProgress
        /\ (resolveCalls' = resolveCalls + 1 /\ lastResolve'.created)
           => /\ emissions' = emissions + 1
              /\ lastResolve'.returned = Len(invoiceDeployments') ]_vars

\* C28 witness: the collection has emitted twice more after its initial []; the
\* join added first is deployed and the deploy added second has failed
C28_Witness ==
    /\ emissions = 3
    /\ Len(invoiceDeployments) = 2
    /\ invoiceDeployments[1].kind = "join"
    /\ invoiceDeployments[1].value.status = "deployed"
    /\ invoiceDeployments[2].kind = "deploy"
    /\ invoiceDeployments[2].value.status = "failed"

\* C29: a resolve() call that creates a Deployment returns it in 'in-progress', its
\* task waiting for the provider bundle, as the last entry of the collection it has
\* emitted, and delivers nothing to any subscriber, whatever the state of the
\* bundle's promise; and a Deployment leaves 'in-progress' only in a later step,
\* which is not a resolve() call.
C29_SubscribeNowResolveLater ==
    [][ /\ (resolveCalls' = resolveCalls + 1 /\ lastResolve'.created)
           => /\ lastResolve'.returned = Len(invoiceDeployments')
              /\ invoiceDeployments'[lastResolve'.returned].value = InProgress
              /\ invoiceDeployments'[lastResolve'.returned].pc = "awaitProviders"
              /\ emissions' = emissions + 1
              /\ subscriptions' = subscriptions
        /\ \A i \in DOMAIN invoiceDeployments' :
              invoiceDeployments'[i].value # InProgress
              => \/ resolveCalls' = resolveCalls
                 \/ /\ i \in DOMAIN invoiceDeployments
                    /\ invoiceDeployments[i].value = invoiceDeployments'[i].value ]_vars

\* C29 witness: resolve() has just returned a new Deployment, in 'in-progress',
\* although the provider bundle's promise it awaits was rejected before the call
\* (the Deployment created earlier has failed with it)
C29_Witness ==
    /\ resolveCalls = 2
    /\ lastResolve.created
    /\ lastResolve.returned = 2
    /\ Len(invoiceDeployments) = 2
    /\ invoiceDeployments[1].value.status = "failed"
    /\ invoiceDeployments[1].providers = invoiceDeployments[2].providers
    /\ promises[invoiceDeployments[2].providers].phase = "rejected"
    /\ invoiceDeployments[2].value = InProgress
    /\ invoiceDeployments[2].pc = "awaitProviders"

\* C30: a resolve() call that creates a Deployment starts a deploy of a new contract
\* exactly when it was called without an address argument; called with one (the
\* empty string included) it starts a join of that address.
C30_JoinVersusDeploy ==
    [][ (resolveCalls' = resolveCalls + 1 /\ lastResolve'.created)
        => LET d == invoiceDeployments'[lastResolve'.returned] IN
           /\ d.kind = "deploy" <=> lastResolve'.contractAddress = Undefined
           /\ d.kind = "join" => d.contractAddress = lastResolve'.contractAddress ]_vars

---------------------------------------------------------------------------
(* Claims about the adapter's snapshots *)

\* what a subscriber reads in a snapshot's transactionHistory while the adapter's
\* history is adapterHistory
HistorySeen(snapshot, adapterHistory) ==
    IF snapshot.transactionHistory = TheArrayItself(adapterHistory)
    THEN adapterHistory
    ELSE snapshot.transactionHistory

IsPrefix(s, t) == Len(s) <= Len(t) /\ SubSeq(t, 1, Len(s)) = s

\* C31: a snapshot delivered in a step holds the adapter's history of that moment;
\* no step (a later append included) changes what a snapshot delivered earlier
\* holds; and the history of a snapshot is a prefix of that of every later one.
C31_HistorySnapshots ==
    [][ LET before == stateSubscriber.received
            after == stateSubscriber'.received
        IN /\ \A i \in DOMAIN before :
                 /\ i \in DOMAIN after
                 /\ HistorySeen(after[i], transactionHistory')
                       = HistorySeen(before[i], transactionHistory)
           /\ Len(after) > Len(before)
                 => HistorySeen(after[Len(after)], transactionHistory') = transactionHistory'
           /\ \A i, j \in DOMAIN after :
                 i < j => IsPrefix(HistorySeen(after[i], transactionHistory'),
                                   HistorySeen(after[j], transactionHistory')) ]_vars

\* C31 witness: a snapshot with an empty history, a later one with one entry, and
\* an append made after both
C31_Witness ==
    LET received == stateSubscriber.received IN
    /\ Len(transactionHistory) = 2
    /\ \E i, j \in DOMAIN received :
          /\ i < j
          /\ received[i].transactionHistory = <<>>
          /\ received[j].transactionHistory = <<transactionHistory[1]>>
          /\ j = Len(received)


\* the snapshot is the one computed from this ledger state and this private state
ComputedFrom(snapshot, block, ledgerState, privateState) ==
    /\ snapshot.block = block
    /\ snapshot.state = ledgerState.state
    /\ snapshot.sequence = ledgerState.sequence
    /\ snapshot.amount = ledgerState.amount
    /\ snapshot.invoiceData = ParsedInvoiceData(ledgerState.invoiceJson)
    /\ snapshot.canPay = (ledgerState.buyerPk =
                             buyerKey(privateState.secretKey,
                                      convert_bigint_to_Uint8Array(KeyLength,
                                                                   ledgerState.sequence)))

\* C32: nothing is delivered before a ledger state and the private state have both
\* arrived; ledger states arrive in order; a ledger state arriving after a private
\* state was obtained gives exactly one snapshot, computed from that ledger state;
\* the arrival of the private state gives exactly one snapshot, computed from the
\* latest ledger state that arrived before it; no other step delivers a snapshot.
C32_EmissionOrder ==
    [][ LET s == stateSubscriber
            t == stateSubscriber'
            obtained == t.hasPrivateState /\ t.privateState # Null
        IN /\ (~t.hasPrivateState \/ t.ledger = 0) => t.received = <<>>
           /\ t.ledger # s.ledger
                 => /\ s.hasPrivateState = t.hasPrivateState
                    /\ t.ledger = IF s.ledger = 0 THEN s.first ELSE s.ledger + 1
                    /\ obtained
                          => /\ Len(t.received) = Len(s.received) + 1
                             /\ SubSeq(t.received, 1, Len(s.received)) = s.received
                             /\ ComputedFrom(t.received[Len(t.received)], t.ledger,
                                             contractStates[t.ledger], t.privateState)
           /\ (t.ledger = s.ledger /\ t.hasPrivateState # s.hasPrivateState /\ obtained)
                 => IF t.ledger = 0 THEN t.received = <<>>
                    ELSE /\ s.received = <<>>
                         /\ Len(t.received) = 1
                         /\ ComputedFrom(t.received[1], t.ledger,
                                         contractStates[t.ledger], t.privateState)
           /\ (t.ledger = s.ledger /\ t.hasPrivateState = s.hasPrivateState)
                 => t.received = s.received ]_vars

\* C32 witness: two ledger states arrived before the private state and gave one
\* snapshot, of the second; the ledger state that arrived afterwards gave the next
C32_Witness ==
    LET s == stateSubscriber IN
    /\ s.first = 1
    /\ Len(s.received) = 2
    /\ s.received[1].block = 2
    /\ s.received[2].block = 3
    /\ s.received[1].state # s.received[2].state


---------------------------------------------------------------------------
(* Claims about the bootstrap's connector calls *)

\* C33: in every bootstrap enable() is called only after isEnabled() and
\* serviceUriConfig() only after enable(); a bootstrap whose connectToWallet() has
\* succeeded made each of the three calls exactly once; and a rejection of
\* serviceUriConfig() rejects the bootstrap with the rejection's own error.
C33_BootstrapCallOrder ==
    \A p \in DOMAIN promises :
        LET b == promises[p] IN
        /\ b.serviceUriConfigCalls <= b.enableCalls
        /\ b.enableCalls <= b.isEnabledCalls
        /\ b.phase \in {"walletState", "resolved"}
              => /\ b.isEnabledCalls = 1
                 /\ b.enableCalls = 1
                 /\ b.serviceUriConfigCalls = 1
        /\ b.cause = "serviceUriConfig-rejected"
              => b.phase = "rejected" /\ b.error \in Thrown


\* C34: the private state the adapter's lookup resolved with never changes
\* afterwards, whatever is written to the store, and every snapshot any
\* subscriber holds was computed with the secret key of that private state.
C34_OneShotLookup ==
    [][ /\ privateStateLookup.state = "resolved" => privateStateLookup' = privateStateLookup
        /\ \A i \in DOMAIN stateSubscriber'.received :
              LET snapshot == stateSubscriber'.received[i] IN
              /\ privateStateLookup'.state = "resolved"
              /\ privateStateLookup'.value # Null
              /\ snapshot.canPay =
                    CanPay(contractStates[snapshot.block], privateStateLookup'.value) ]_vars

\* C34 witness: the store has been replaced since the lookup, an invoice has been
\* issued with the new key, and a subscriber that came after the replacement holds
\* a snapshot of that invoice
C34_Witness ==
    /\ privateStateLookup.state = "resolved"
    /\ privateStateLookup.value # Null
    /\ privateStateStore # privateStateLookup.value
    /\ \E i \in DOMAIN stateSubscriber.received :
          LET snapshot == stateSubscriber.received[i] IN
          /\ stateSubscriber.first = snapshot.block
          /\ contractStates[snapshot.block].state = ISSUED
          /\ CanPay(contractStates[snapshot.block], privateStateStore)
          /\ ~snapshot.canPay


---------------------------------------------------------------------------
(* Claims about progress *)

Terminal(i) ==
    /\ i \in DOMAIN invoiceDeployments
    /\ invoiceDeployments[i].value.status \in {"deployed", "failed"}

\* C35: if every call of enable(), serviceUriConfig(), wallet.state(), deploy and
\* join that is started settles, every Deployment created by resolve() eventually
\* is 'deployed' or 'failed'.
C35_EveryDeploymentTerminates ==
    \A i \in Deployments : (i \in DOMAIN invoiceDeployments) ~> Terminal(i)


\* nothing is pending for the subscriber of a running state$: no call is in
\* flight, no continuation waits, every contract state has been delivered and the
\* private state obtained; nothing more is delivered unless the ledger changes again
Quiescent ==
    /\ InFlight = {}
    /\ microtasks = <<>>
    /\ Live(stateSubscriber)
    /\ stateSubscriber.next > Len(contractStates)
    /\ stateSubscriber.hasPrivateState
    /\ stateSubscriber.privateState # Null

\* C36: an entry appended to the adapter's history reaches the subscribers of
\* state$ without a further ledger change: once nothing is pending, the subscriber
\* holds a snapshot whose transactionHistory contains every entry appended so far.
C36_HistoryBecomesVisible ==
    Quiescent
        => \E i \in DOMAIN stateSubscriber.received :
               stateSubscriber.received[i].transactionHistory = transactionHistory

---------------------------------------------------------------------------
(* Claims about the board *)

\* C37: a board whose Deployment has failed does not render the loading view, and
\* renders the Deployment's error message.
C37_FailedIsShown ==
    \A s \in subscriptions :
        LET b == BoardAfter(s.received) IN
        b.invoiceDeployment.status = "failed"
            => /\ b.deployedInvoiceAPI = NoAddress
               /\ Rendered(b, NoSnapshots).view # "loading"
               /\ Rendered(b, NoSnapshots).alert
                     = ErrorMessage(b.invoiceDeployment.error.msg)


\* C38: a deployed board that shows the card offers the action that advances the
\* contract from the ledger state it shows: issue when EMPTY, pay when ISSUED and
\* canPay, reset when PAID, whatever the invoice text on the ledger.
C38_NextActionOffered ==
    LET snapshots == stateSubscriber.received
        invoiceState == snapshots[Len(snapshots)]
        offered == Offered(board, snapshots)
    IN (board.deployedInvoiceAPI # NoAddress /\ ~Loading(board, snapshots))
          => /\ invoiceState.state = EMPTY => "issue" \in offered
             /\ (invoiceState.state = ISSUED /\ invoiceState.canPay) => "pay" \in offered
             /\ invoiceState.state = PAID => "reset" \in offered

\* C39: while a handler of the board is suspended on its call isWorking is true;
\* when it resumes isWorking is false, a call that threw leaves its message in
\* errorMessage, and a call that returned leaves no error message.
C39_OperationBookkeeping ==
    [][ /\ board'.awaiting # 0 => board'.isWorking
        /\ (board.awaiting # 0 /\ board'.awaiting = 0)
              => LET o == operations[board.awaiting] IN
                 /\ ~board'.isWorking
                 /\ o.pc = "thrown" => board'.errorMessage = ErrorMessage(o.thrown.msg)
                 /\ o.pc = "returned" => ~board'.errorMessage.defined ]_vars

====
